---- MODULE Spec2Model ----
(***************************************************************************)
(* A model of milktea736/upload-http: the client's bounded-concurrency     *)
(* folder dispatcher (pkg/client), the server's transfer-status registry   *)
(* and request handlers (pkg/server), the tar.gz directory codec and the   *)
(* path handling both sides rely on.                                       *)
(*                                                                         *)
(* Paths and file contents are sequences of one-character strings, so that *)
(* filepath.Clean, filepath.Join, filepath.Base and strings.Contains are   *)
(* computed character by character, as the Go code computes them.          *)
(***************************************************************************)
EXTENDS Integers, Sequences, FiniteSets, TLC

\* Client.UploadFolder: the dispatcher's state.
VARIABLES
    files,        \* len(files): the number of regular files collectFiles found
    Concurrency,  \* c.config.Concurrency
    dpc,          \* where the goroutine that called UploadFolder is
    idx,          \* the file the range loop is at (1-based)
    sem,          \* len(sem): slots of the semaphore channel that are taken
    wg,           \* the WaitGroup's counter
    mu,           \* the task holding the progress mutex, 0 when it is free
    uploadErr,    \* 0 for nil, else the file whose error is recorded
    progress,     \* the TransferProgress record
    tpc,          \* where each file's goroutine is
    failed,       \* files whose task took an error path (history)
    called,       \* files for which UploadFile was called (history)
    errWrites,    \* number of assignments to uploadErr (history)
    cbCount,      \* number of progressCallback invocations (history)
    lastCb,       \* the record the latest progressCallback invocation saw
    dret          \* what UploadFolder returned

dvars == <<files, Concurrency, dpc, idx, sem, wg, mu, uploadErr, progress, tpc,
           failed, called, errWrites, cbCount, lastCb, dret>>

\* Server: the registry, the upload tasks, the storage directory.
VARIABLES
    clock,        \* the latest reading of time.Now().UnixNano()
    transfers,    \* s.transfers: transfer id -> address of its TransferStatus
    records,      \* the TransferStatus records allocated, by address
    uploads,      \* the accepted upload requests: handler and task positions
    sfiles,       \* regular files of the server's filesystem: path -> bytes
    sdirs,        \* directories of the server's filesystem
    poll,         \* the status request being served
    get,          \* the download or list request being served
    rejected      \* number of upload requests refused (history)

svars == <<clock, transfers, records, uploads, sfiles, sdirs, poll, get, rejected>>

VARIABLES
    cfiles,       \* client filesystem: regular files, path -> bytes
    cdirs,        \* client filesystem: directories
    calls,        \* the UploadFile calls of the client
    dl,           \* the DownloadFolder or DownloadFile call of the client
    LogLevel,     \* the level of the client's logger
    vf            \* the VerifyFile or VerifyReader call of a hasher

cvars == <<cfiles, cdirs, calls, dl, LogLevel, vf>>

vars == <<dvars, svars, cvars>>

(***************************************************************************)
(* Path functions (path/filepath on a slash-separated system, strings).    *)
(***************************************************************************)

\* strings.Contains(s, "..")
ContainsDotDot(s) ==
    \E i \in 1..(Len(s) - 1) : s[i] = "." /\ s[i + 1] = "."

\* lazybuf backtrack of filepath.Clean: drop the last element of out.
RECURSIVE CleanBacktrack(_, _, _)
CleanBacktrack(out, w, dotdot) ==
    IF w > dotdot /\ out[w + 1] # "/"
    THEN CleanBacktrack(out, w - 1, dotdot)
    ELSE SubSeq(out, 1, w)

\* The end (exclusive) of the path element that starts at r.
RECURSIVE ElemEnd(_, _)
ElemEnd(path, r) ==
    IF r > Len(path) \/ path[r] = "/" THEN r ELSE ElemEnd(path, r + 1)

\* The main loop of filepath.Clean: r reads path, out is the buffer written,
\* dotdot the length of out below which ".." may not backtrack.
RECURSIVE CleanLoop(_, _, _, _)
CleanLoop(path, r, out, dotdot) ==
    LET n == Len(path)
        rooted == path[1] = "/"
    IN  IF r > n THEN out
        ELSE IF path[r] = "/" THEN CleanLoop(path, r + 1, out, dotdot)
        ELSE IF path[r] = "." /\ (r = n \/ path[r + 1] = "/")
             THEN CleanLoop(path, r + 1, out, dotdot)
        ELSE IF path[r] = "." /\ path[r + 1] = "." /\ (r + 1 = n \/ path[r + 2] = "/")
             THEN IF Len(out) > dotdot
                  THEN CleanLoop(path, r + 2,
                                 CleanBacktrack(out, Len(out) - 1, dotdot), dotdot)
                  ELSE IF ~rooted
                       THEN LET o2 == (IF Len(out) > 0 THEN Append(out, "/") ELSE out)
                                         \o <<".", ".">>
                            IN  CleanLoop(path, r + 2, o2, Len(o2))
                       ELSE CleanLoop(path, r + 2, out, dotdot)
        ELSE LET o1 == IF (rooted /\ Len(out) # 1) \/ (~rooted /\ Len(out) # 0)
                       THEN Append(out, "/") ELSE out
                 e  == ElemEnd(path, r)
             IN  CleanLoop(path, e, o1 \o SubSeq(path, r, e - 1), dotdot)

\* filepath.Clean
Clean(path) ==
    IF path = <<>> THEN <<".">>
    ELSE LET rooted == path[1] = "/"
             out == CleanLoop(path,
                              IF rooted THEN 2 ELSE 1,
                              IF rooted THEN <<"/">> ELSE <<>>,
                              IF rooted THEN 1 ELSE 0)
         IN  IF out = <<>> THEN <<".">> ELSE out

\* filepath.Join(a, b)
Join(a, b) ==
    IF a # <<>> THEN Clean(a \o <<"/">> \o b)
    ELSE IF b # <<>> THEN Clean(b)
    ELSE <<>>

\* path with its trailing slashes removed (filepath.Base, first loop)
RECURSIVE StripTrailingSlashes(_)
StripTrailingSlashes(path) ==
    IF Len(path) > 0 /\ path[Len(path)] = "/"
    THEN StripTrailingSlashes(SubSeq(path, 1, Len(path) - 1))
    ELSE path

\* The index of the last "/" of path at or before i, 0 when there is none.
RECURSIVE LastSlash(_, _)
LastSlash(path, i) ==
    IF i = 0 THEN 0
    ELSE IF path[i] = "/" THEN i
    ELSE LastSlash(path, i - 1)

\* filepath.Base
Base(path) ==
    IF path = <<>> THEN <<".">>
    ELSE LET p == StripTrailingSlashes(path)
             q == SubSeq(p, LastSlash(p, Len(p)) + 1, Len(p))
         IN  IF q = <<>> THEN <<"/">> ELSE q

\* filepath.Dir
Dir(path) ==
    Clean(SubSeq(path, 1, LastSlash(path, Len(path))))

\* The characters of the model's paths, in ASCII order.
Alphabet == <<".", "/", "a", "b", "c", "d", "e", "l", "p", "s", "t", "u", "w", "x", "y">>

CharRank(c) == CHOOSE k \in 1..Len(Alphabet) : Alphabet[k] = c

\* a < b as Go compares strings (sort.Strings in filepath.Walk's readDirNames)
RECURSIVE StringLess(_, _)
StringLess(a, b) ==
    IF b = <<>> THEN FALSE
    ELSE IF a = <<>> THEN TRUE
    ELSE IF a[1] # b[1] THEN CharRank(a[1]) < CharRank(b[1])
    ELSE StringLess(Tail(a), Tail(b))

\* The strings of a finite set in increasing order.
RECURSIVE SortStrings(_)
SortStrings(S) ==
    IF S = {} THEN <<>>
    ELSE LET m == CHOOSE x \in S : \A y \in S \ {x} : StringLess(x, y)
         IN  <<m>> \o SortStrings(S \ {m})

\* targ without the prefix base + "/": filepath.Rel(base, targ) for a path
\* targ that filepath.Walk(base) produced.
Rel(base, targ) ==
    IF targ = base THEN <<".">>
    ELSE SubSeq(targ, Len(base) + 2, Len(targ))

\* path lies strictly inside directory root.
Inside(root, path) ==
    /\ Len(path) > Len(root) + 1
    /\ SubSeq(path, 1, Len(root) + 1) = root \o <<"/">>

(***************************************************************************)
(* The filesystem: regular files (path -> bytes) and directories, keyed by *)
(* cleaned paths relative to the process's working directory.              *)
(***************************************************************************)

\* os.MkdirAll(d) succeeds: d is a directory, or can be made below one.
RECURSIVE MkdirAllOk(_, _, _)
MkdirAllOk(fs, dirs, d) ==
    IF d \in dirs THEN TRUE
    ELSE IF d \in DOMAIN fs THEN FALSE
    ELSE IF Dir(d) = d THEN FALSE
    ELSE MkdirAllOk(fs, dirs, Dir(d))

\* The directories after a successful os.MkdirAll(d).
RECURSIVE MkdirAll(_, _)
MkdirAll(dirs, d) ==
    IF d \in dirs \/ Dir(d) = d THEN dirs
    ELSE MkdirAll(dirs, Dir(d)) \cup {d}

\* os.Create(p) succeeds: p is no directory and its parent is one.
CreateOk(fs, dirs, p) ==
    /\ p \notin dirs
    /\ Dir(p) \in dirs

\* The files after os.Create(p): p exists and is empty.
Create(fs, p) ==
    [q \in DOMAIN fs \cup {p} |-> IF q = p THEN <<>> ELSE fs[q]]

\* The files after bytes were written to the open file p.
WriteFile(fs, p, bytes) ==
    [q \in DOMAIN fs \cup {p} |-> IF q = p THEN bytes ELSE fs[q]]

\* The names in directory d (os.ReadDir, readDirNames).
DirNames(fs, dirs, d) ==
    { Base(q) : q \in { q \in (DOMAIN fs) \cup dirs : Dir(q) = d /\ q # d } }

\* filepath.Walk(root): the regular files below root in the order walked,
\* each directory's names in increasing order, depth first.
RECURSIVE Walk(_, _, _)
RECURSIVE WalkNames(_, _, _, _)
Walk(fs, dirs, d) == WalkNames(fs, dirs, d, SortStrings(DirNames(fs, dirs, d)))
WalkNames(fs, dirs, d, names) ==
    IF names = <<>> THEN <<>>
    ELSE LET q == Join(d, names[1])
         IN  (IF q \in dirs THEN Walk(fs, dirs, q) ELSE <<q>>)
                 \o WalkNames(fs, dirs, d, Tail(names))

(***************************************************************************)
(* Server (pkg/server): registry, upload handler and processing task.      *)
(***************************************************************************)

\* Bounds of the server model.
MaxUploads == 2
MaxParts == 2
MaxClock == 1
MaxRejects == 1

\* s.config.StoragePath, cleaned ("./uploads" is the default)
StoragePath == <<"u">>

\* The transfer id of a status request with an empty suffix.
NoID == -1

\* The k-th file part of an upload request of the server model: its wire
\* file name is the k-th letter and it carries k bytes.
Letters == <<"a", "b", "c", "d">>
ServerPart(k) == [name |-> <<Letters[k]>>, data |-> [j \in 1..k |-> "x"]]

\* The "files" part lists of the upload requests of the server model.
ServerPartLists == { [k \in 1..n |-> ServerPart(k)] : n \in 0..MaxParts }

\* Part.FileName of mime/multipart: the wire name through filepath.Base.
FileName(wire) == Base(wire)

\* &TransferStatus{ID: transferID, Type: "upload", Status: "running", ...}
NewStatus(id) ==
    [ID |-> id, Type |-> "upload", Status |-> "running",
     Progress |-> [num |-> 0, den |-> 1],
     TotalFiles |-> 0, ProcessedFiles |-> 0,
     TotalSize |-> 0, ProcessedSize |-> 0,
     EndTime |-> "nil", Error |-> ""]

\* No status request is being served.
IdlePoll == [pc |-> "idle", id |-> NoID, ptr |-> 0, code |-> 0]

\* No download or list request is being served.
IdleGet ==
    [pc |-> "idle", kind |-> "none", path |-> <<>>, clean |-> <<>>, full |-> <<>>,
     code |-> 0, fsops |-> 0, hash |-> <<>>, body |-> <<>>, id |-> NoID,
     walk |-> <<>>, stream |-> <<>>, listing |-> {}]

\* The server after NewServer, with an empty storage directory.
ServerIdle ==
    /\ clock = 0
    /\ transfers = <<>>
    /\ records = <<>>
    /\ uploads = <<>>
    /\ sfiles = <<>>
    /\ sdirs = {<<".">>, <<".", ".">>, StoragePath}
    /\ poll = IdlePoll
    /\ get = IdleGet
    /\ rejected = 0

Uploads == 1..Len(uploads)

\* HandleUploadReject with the refusal made after the transfer id is
\* generated and its record stored.
HandleUploadRejectLate ==
    /\ rejected < MaxRejects
    /\ rejected' = rejected + 1
    /\ \E t \in clock..MaxClock :
          /\ clock' = t
          /\ records' = Append(records, NewStatus(t))
          /\ transfers' = [k \in DOMAIN transfers \cup {t} |->
                              IF k = t THEN Len(records) + 1 ELSE transfers[k]]
    /\ UNCHANGED <<uploads, sfiles, sdirs, poll, get>>

\* handleUpload refuses the request: wrong method (405) or a body that
\* ParseMultipartForm cannot read (400). It returns before
\* generateTransferID.
HandleUploadReject ==
    /\ rejected < MaxRejects
    /\ rejected' = rejected + 1
    /\ UNCHANGED <<clock, transfers, records, uploads, sfiles, sdirs, poll, get>>

\* handleUpload accepts the request: generateTransferID reads the clock, the
\* status record is allocated and stored in s.transfers under the write lock.
\* (wrote is history: the parts whose destination file the task created.)
HandleUploadRegister(parts) ==
    /\ Len(uploads) < MaxUploads
    /\ \E t \in clock..MaxClock :
          /\ clock' = t
          /\ records' = Append(records, NewStatus(t))
          /\ transfers' = [k \in DOMAIN transfers \cup {t} |->
                              IF k = t THEN Len(records) + 1 ELSE transfers[k]]
          /\ uploads' = Append(uploads,
                 [parts |-> parts, id |-> t, hpc |-> "go", ppc |-> "none",
                  status |-> 0, i |-> 1, err |-> "", wrote |-> {}])
    /\ UNCHANGED <<sfiles, sdirs, poll, get, rejected>>

\* go s.processUpload(transferID, r.MultipartForm)
HandleUploadGo(u) ==
    /\ uploads[u].hpc = "go"
    /\ uploads' = [uploads EXCEPT ![u].hpc = "respond", ![u].ppc = "start"]
    /\ UNCHANGED <<clock, transfers, records, sfiles, sdirs, poll, get, rejected>>

\* json.NewEncoder(w).Encode({transfer_id, status: "started"})
HandleUploadRespond(u) ==
    /\ uploads[u].hpc = "respond"
    /\ uploads' = [uploads EXCEPT ![u].hpc = "responded"]
    /\ UNCHANGED <<clock, transfers, records, sfiles, sdirs, poll, get, rejected>>

\* processUpload: status := s.transfers[transferID], under the read lock.
ProcessStart(u) ==
    /\ uploads[u].ppc = "start"
    /\ uploads' = [uploads EXCEPT ![u].status = transfers[uploads[u].id],
                                  ![u].ppc = "total"]
    /\ UNCHANGED <<clock, transfers, records, sfiles, sdirs, poll, get, rejected>>

\* status.TotalFiles = len(files)
ProcessTotalFiles(u) ==
    /\ uploads[u].ppc = "total"
    /\ records' = [records EXCEPT ![uploads[u].status].TotalFiles =
                                      Len(uploads[u].parts)]
    /\ uploads' = [uploads EXCEPT ![u].ppc = "size", ![u].i = 1]
    /\ UNCHANGED <<clock, transfers, sfiles, sdirs, poll, get, rejected>>

\* for _, fileHeader := range files { status.TotalSize += fileHeader.Size }
\* and, after it, the entry of the processing loop.
ProcessTotalSize(u) ==
    LET up == uploads[u] IN
    /\ up.ppc = "size"
    /\ IF up.i <= Len(up.parts)
       THEN /\ records' = [records EXCEPT ![up.status].TotalSize =
                                              @ + Len(up.parts[up.i].data)]
            /\ uploads' = [uploads EXCEPT ![u].i = up.i + 1]
       ELSE /\ uploads' = [uploads EXCEPT ![u].i = 1,
                              ![u].ppc = IF Len(up.parts) = 0
                                         THEN "complete" ELSE "create"]
            /\ UNCHANGED records
    /\ UNCHANGED <<clock, transfers, sfiles, sdirs, poll, get, rejected>>

\* processUploadedFile up to os.Create: fileHeader.Open, the destination path
\* filepath.Join(StoragePath, fileHeader.Filename), os.MkdirAll of its
\* directory, os.Create. Each may fail; the path decides some failures.
ProcessCreate(u) ==
    LET up == uploads[u]
        destPath == Join(StoragePath, FileName(up.parts[up.i].name))
        destDir == Dir(destPath)
    IN
    /\ up.ppc = "create"
    /\ \/ /\ uploads' = [uploads EXCEPT ![u].ppc = "fail", ![u].err = "create"]
          /\ UNCHANGED <<sfiles, sdirs>>
       \/ /\ ~MkdirAllOk(sfiles, sdirs, destDir)
          /\ uploads' = [uploads EXCEPT ![u].ppc = "fail", ![u].err = "create"]
          /\ UNCHANGED <<sfiles, sdirs>>
       \/ /\ MkdirAllOk(sfiles, sdirs, destDir)
          /\ sdirs' = MkdirAll(sdirs, destDir)
          /\ IF CreateOk(sfiles, sdirs', destPath)
             THEN /\ sfiles' = Create(sfiles, destPath)
                  /\ uploads' = [uploads EXCEPT ![u].ppc = "copy",
                                                ![u].wrote = @ \cup {up.i}]
             ELSE /\ uploads' = [uploads EXCEPT ![u].ppc = "fail",
                                                ![u].err = "create"]
                  /\ UNCHANGED sfiles
    /\ UNCHANGED <<clock, transfers, records, poll, get, rejected>>

\* written, err := io.Copy(destFile, file); on success
\* status.ProcessedSize += written and processUploadedFile returns nil.
ProcessCopy(u) ==
    LET up == uploads[u]
        data == up.parts[up.i].data
        destPath == Join(StoragePath, FileName(up.parts[up.i].name))
    IN
    /\ up.ppc = "copy"
    /\ \/ /\ sfiles' = WriteFile(sfiles, destPath, data)
          /\ records' = [records EXCEPT ![up.status].ProcessedSize = @ + Len(data)]
          /\ uploads' = [uploads EXCEPT ![u].ppc = "count"]
       \/ /\ \E k \in 0..(Len(data) - 1) :
                sfiles' = WriteFile(sfiles, destPath, SubSeq(data, 1, k))
          /\ uploads' = [uploads EXCEPT ![u].ppc = "fail", ![u].err = "copy"]
          /\ UNCHANGED records
    /\ UNCHANGED <<clock, transfers, sdirs, poll, get, rejected>>

\* status.ProcessedFiles = i + 1
ProcessCount(u) ==
    LET up == uploads[u] IN
    /\ up.ppc = "count"
    /\ records' = [records EXCEPT ![up.status].ProcessedFiles = up.i]
    /\ uploads' = [uploads EXCEPT ![u].ppc = "progress"]
    /\ UNCHANGED <<clock, transfers, sfiles, sdirs, poll, get, rejected>>

\* status.Progress = float64(status.ProcessedFiles) / float64(status.TotalFiles)
\* and the next iteration, or the end of the loop.
ProcessProgress(u) ==
    LET up == uploads[u]
        st == records[up.status]
    IN
    /\ up.ppc = "progress"
    /\ records' = [records EXCEPT ![up.status].Progress =
                      [num |-> st.ProcessedFiles, den |-> st.TotalFiles]]
    /\ uploads' = [uploads EXCEPT ![u].i = up.i + 1,
                      ![u].ppc = IF up.i = Len(up.parts) THEN "complete" ELSE "create"]
    /\ UNCHANGED <<clock, transfers, sfiles, sdirs, poll, get, rejected>>

\* status.Status = "failed"
ProcessFailStatus(u) ==
    /\ uploads[u].ppc = "fail"
    /\ records' = [records EXCEPT ![uploads[u].status].Status = "failed"]
    /\ uploads' = [uploads EXCEPT ![u].ppc = "error"]
    /\ UNCHANGED <<clock, transfers, sfiles, sdirs, poll, get, rejected>>

\* status.Error = err.Error(); return
ProcessFailError(u) ==
    /\ uploads[u].ppc = "error"
    /\ records' = [records EXCEPT ![uploads[u].status].Error = uploads[u].err]
    /\ uploads' = [uploads EXCEPT ![u].ppc = "end"]
    /\ UNCHANGED <<clock, transfers, sfiles, sdirs, poll, get, rejected>>

\* status.Status = "completed"
ProcessComplete(u) ==
    /\ uploads[u].ppc = "complete"
    /\ records' = [records EXCEPT ![uploads[u].status].Status = "completed"]
    /\ uploads' = [uploads EXCEPT ![u].ppc = "end"]
    /\ UNCHANGED <<clock, transfers, sfiles, sdirs, poll, get, rejected>>

\* ProcessEnd with an eviction of the finished transfer's registry entry.
ProcessEndEvict(u) ==
    /\ uploads[u].ppc = "end"
    /\ records' = [records EXCEPT ![uploads[u].status].EndTime = "set"]
    /\ transfers' = [k \in DOMAIN transfers \ {uploads[u].id} |-> transfers[k]]
    /\ uploads' = [uploads EXCEPT ![u].ppc = "done"]
    /\ UNCHANGED <<clock, sfiles, sdirs, poll, get, rejected>>

\* The deferred function: status.EndTime = &endTime.
ProcessEnd(u) ==
    /\ uploads[u].ppc = "end"
    /\ records' = [records EXCEPT ![uploads[u].status].EndTime = "set"]
    /\ uploads' = [uploads EXCEPT ![u].ppc = "done"]
    /\ UNCHANGED <<clock, transfers, sfiles, sdirs, poll, get, rejected>>

\* HandleStatusLookup without the test for an empty id.
HandleStatusLookupAnyID(id) ==
    /\ poll.pc = "idle"
    /\ IF id \notin DOMAIN transfers
       THEN poll' = [IdlePoll EXCEPT !.pc = "done", !.id = id, !.code = 404]
       ELSE poll' = [IdlePoll EXCEPT !.pc = "encode", !.id = id,
                                     !.ptr = transfers[id]]
    /\ UNCHANGED <<clock, transfers, records, uploads, sfiles, sdirs, get, rejected>>

\* handleStatus up to the lookup: an empty id is refused (400); the record is
\* looked up under the read lock, an absent id is answered 404.
HandleStatusLookup(id) ==
    /\ poll.pc = "idle"
    /\ IF id = NoID
       THEN poll' = [IdlePoll EXCEPT !.pc = "done", !.id = id, !.code = 400]
       ELSE IF id \notin DOMAIN transfers
       THEN poll' = [IdlePoll EXCEPT !.pc = "done", !.id = id, !.code = 404]
       ELSE poll' = [IdlePoll EXCEPT !.pc = "encode", !.id = id,
                                     !.ptr = transfers[id]]
    /\ UNCHANGED <<clock, transfers, records, uploads, sfiles, sdirs, get, rejected>>

\* handleStatus: json.NewEncoder(w).Encode(status), after RUnlock: the
\* fields of records[poll.ptr] are read with no lock held and sent.
HandleStatusEncode ==
    /\ poll.pc = "encode"
    /\ poll' = [poll EXCEPT !.pc = "done", !.code = 200]
    /\ UNCHANGED <<clock, transfers, records, uploads, sfiles, sdirs, get, rejected>>

\* The client has read the status response.
StatusDone ==
    /\ poll.pc = "done"
    /\ poll' = IdlePoll
    /\ UNCHANGED <<clock, transfers, records, uploads, sfiles, sdirs, get, rejected>>

(***************************************************************************)
(* Logger (pkg/utils) and Hasher (pkg/hash).                               *)
(***************************************************************************)

\* The levels of the logger, lowest first; parseLogLevel gives them.
LogLevels == <<"debug", "info", "warn", "error">>

LevelRank(level) == CHOOSE k \in 1..Len(LogLevels) : LogLevels[k] = level

\* The number of records a call of Logger.Debug/Info/Warn/Error (at) writes
\* when the logger has the given level: one when level <= at, else none.
Logged(level, at) == IF LevelRank(level) <= LevelRank(at) THEN 1 ELSE 0

\* The hash algorithms HashReader knows.
HashTypes == {"md5", "sha256"}

\* fmt.Sprintf("%x", hasher.Sum(nil)): the digest of bytes under an
\* algorithm, taken as collision-free and distinct between algorithms.
Digest(alg, bytes) == <<alg>> \o bytes

\* Hasher.HashReader: the FileHash of bytes, or an error for an algorithm it
\* does not know.
HashReader(hashType, bytes) ==
    IF hashType \in HashTypes
    THEN [err |-> "", Algorithm |-> hashType, Value |-> Digest(hashType, bytes)]
    ELSE [err |-> "unsupported", Algorithm |-> hashType, Value |-> <<>>]

\* FileHash.String(): "algorithm:value"
HashString(fh) == <<fh.Algorithm, ":">> \o fh.Value

\* The position of the first ":" of a header, 0 when there is none.
Colon(hashStr) ==
    IF \E k \in 1..Len(hashStr) : hashStr[k] = ":"
    THEN CHOOSE k \in 1..Len(hashStr) :
            hashStr[k] = ":" /\ \A j \in 1..(k - 1) : hashStr[j] # ":"
    ELSE 0

\* Client.verifyFileHash on a local file with the given bytes: the header is
\* split at its first ":", the file is hashed with the header's algorithm and
\* the values are compared. "nil", or the kind of the error returned.
VerifyFileHash(bytes, hashStr) ==
    LET k == Colon(hashStr)
        algorithm == SubSeq(hashStr, 1, k - 1)
        expectedValue == SubSeq(hashStr, k + 1, Len(hashStr))
    IN  IF k = 0 THEN "format"
        ELSE IF Len(algorithm) # 1 THEN "hash"
        ELSE IF HashReader(algorithm[1], bytes).err # "" THEN "hash"
        ELSE IF HashReader(algorithm[1], bytes).Value # expectedValue THEN "mismatch"
        ELSE "nil"

\* No verification has been called.
IdleVerify ==
    [pc |-> "idle", kind |-> "none", hashType |-> "", expected |-> <<>>,
     bytes |-> <<>>, opened |-> FALSE, read |-> 0, ok |-> FALSE, err |-> ""]

(***************************************************************************)
(* Server (pkg/server): the download and list handlers.                    *)
(***************************************************************************)

\* The path check without its refusal: filepath.Clean alone.
SanitizeCleanOnly(path) ==
    [ok |-> TRUE, clean |-> Clean(path)]

\* The path check of handleDownload and handleList: filepath.Clean, then the
\* clean path is refused when it contains "..".
Sanitize(path) ==
    LET cleanPath == Clean(path)
    IN  [ok |-> ~ContainsDotDot(cleanPath), clean |-> cleanPath]

\* hasher.HashFile with the default hasher: the digest of bytes, taken as
\* collision-free, with its algorithm.
HashFile(bytes) == HashReader("sha256", bytes)

\* A GET request for /api/download or /api/list arrives with its path
\* parameter.
GetArrive(kind, path) ==
    /\ get.pc = "idle"
    /\ get' = [IdleGet EXCEPT !.pc = "sanitize", !.kind = kind, !.path = path]
    /\ UNCHANGED <<clock, transfers, records, uploads, sfiles, sdirs, poll, rejected>>

\* The body of a directory download as bytes: "#", then each entry's name,
\* ":" and bytes.
RECURSIVE ArchiveBytes(_)
ArchiveBytes(stream) ==
    IF stream = <<>> THEN <<"#">>
    ELSE ArchiveBytes(SubSeq(stream, 1, Len(stream) - 1))
            \o stream[Len(stream)].Name \o <<":">> \o stream[Len(stream)].data

\* HandleGetSanitize with os.Stat of the joined path made before the path
\* check.
HandleGetSanitizeStatFirst ==
    LET path == IF get.kind = "list" /\ get.path = <<>> THEN <<".">> ELSE get.path
        san == Sanitize(path)
    IN
    /\ get.pc = "sanitize"
    /\ IF get.kind = "download" /\ get.path = <<>>
       THEN get' = [get EXCEPT !.pc = "done", !.code = 400]
       ELSE IF ~san.ok
       THEN get' = [get EXCEPT !.pc = "done", !.code = 400, !.clean = san.clean,
                               !.fsops = @ + 1]
       ELSE get' = [get EXCEPT !.pc = IF get.kind = "list" THEN "readdir" ELSE "stat",
                               !.clean = san.clean,
                               !.full = Join(StoragePath, san.clean)]
    /\ UNCHANGED <<clock, transfers, records, uploads, sfiles, sdirs, poll, rejected>>

\* handleDownload / handleList before any file is touched: an empty download
\* path is refused (400), an empty list path stands for ".", and a path that
\* fails the path check is refused (400).
HandleGetSanitize ==
    LET path == IF get.kind = "list" /\ get.path = <<>> THEN <<".">> ELSE get.path
        san == Sanitize(path)
    IN
    /\ get.pc = "sanitize"
    /\ IF get.kind = "download" /\ get.path = <<>>
       THEN get' = [get EXCEPT !.pc = "done", !.code = 400]
       ELSE IF ~san.ok
       THEN get' = [get EXCEPT !.pc = "done", !.code = 400, !.clean = san.clean]
       ELSE get' = [get EXCEPT !.pc = IF get.kind = "list" THEN "readdir" ELSE "stat",
                               !.clean = san.clean,
                               !.full = Join(StoragePath, san.clean)]
    /\ UNCHANGED <<clock, transfers, records, uploads, sfiles, sdirs, poll, rejected>>

\* handleDownload: os.Stat(fullPath): absent (404), another error (500), a
\* directory (handleDirectoryDownload begins: it reads a transfer id off the
\* clock and starts the walk), or a file.
HandleDownloadStat ==
    /\ get.pc = "stat"
    /\ \/ /\ get.full \notin (DOMAIN sfiles) \cup sdirs
          /\ get' = [get EXCEPT !.pc = "done", !.code = 404, !.fsops = @ + 1]
          /\ UNCHANGED clock
       \/ /\ get' = [get EXCEPT !.pc = "done", !.code = 500, !.fsops = @ + 1]
          /\ UNCHANGED clock
       \/ /\ get.full \in sdirs
          /\ \E t \in clock..MaxClock :
                /\ clock' = t
                /\ get' = [get EXCEPT !.pc = "walk", !.code = 200, !.fsops = @ + 1,
                                      !.id = t,
                                      !.walk = Walk(sfiles, sdirs, get.full)]
       \/ /\ get.full \in DOMAIN sfiles
          /\ get' = [get EXCEPT !.pc = "open", !.fsops = @ + 1]
          /\ UNCHANGED clock
    /\ UNCHANGED <<transfers, records, uploads, sfiles, sdirs, poll, rejected>>

\* handleFileDownload: os.Open(fullPath), or 500 when it fails.
HandleFileOpen ==
    /\ get.pc = "open"
    /\ \/ get' = [get EXCEPT !.pc = "done", !.code = 500, !.fsops = @ + 1]
       \/ /\ get.full \in DOMAIN sfiles
          /\ get' = [get EXCEPT !.pc = "hash", !.fsops = @ + 1]
    /\ UNCHANGED <<clock, transfers, records, uploads, sfiles, sdirs, poll, rejected>>

\* handleFileDownload: the X-File-Hash header is the digest of the file as it
\* is now; the header is left out when hashing fails.
HandleFileHash ==
    /\ get.pc = "hash"
    /\ \/ get' = [get EXCEPT !.pc = "copy", !.code = 200,
                             !.hash = HashString(HashFile(sfiles[get.full]))]
       \/ get' = [get EXCEPT !.pc = "copy", !.code = 200]
    /\ UNCHANGED <<clock, transfers, records, uploads, sfiles, sdirs, poll, rejected>>

\* handleFileDownload: io.Copy(w, file) sends the file's bytes as they are now.
HandleFileCopy ==
    /\ get.pc = "copy"
    /\ get' = [get EXCEPT !.pc = "done", !.body = sfiles[get.full]]
    /\ UNCHANGED <<clock, transfers, records, uploads, sfiles, sdirs, poll, rejected>>

\* A tar header named by the file's base name.
TarHeaderBaseName(fullPath, path, data) ==
    [Name |-> Base(path), Size |-> Len(data)]

\* &tar.Header{Name: relPath, Size: info.Size(), ...} with relPath the path
\* relative to the directory being sent.
TarHeader(fullPath, path, data) ==
    [Name |-> Rel(fullPath, path), Size |-> Len(data)]

\* An archive entry: a header and the bytes that follow it.
Entry(header, data) ==
    [Name |-> header.Name, Size |-> header.Size, data |-> data]

\* handleDirectoryDownload, one file of the walk: the tar header and then the
\* file's bytes; or an error of os.Open or of io.Copy, which ends the archive
\* after the header with the bytes copied so far; or an error of the walk or
\* of WriteHeader, which ends it before the header.
HandleDirEntry ==
    LET path == get.walk[1]
        data == sfiles[path]
        header == TarHeader(get.full, path, data)
    IN
    /\ get.pc = "walk" /\ get.walk # <<>>
    /\ \/ get' = [get EXCEPT !.walk = Tail(@), !.fsops = @ + 1,
                    !.stream = Append(@, Entry(header, data))]
       \/ \E k \in 0..(Len(data) - 1) :
             get' = [get EXCEPT !.pc = "done", !.fsops = @ + 1,
                    !.stream = Append(@, Entry(header, SubSeq(data, 1, k)))]
       \/ get' = [get EXCEPT !.pc = "done", !.fsops = @ + 1]
    /\ UNCHANGED <<clock, transfers, records, uploads, sfiles, sdirs, poll, rejected>>

\* handleDirectoryDownload: the walk is over, the deferred Close calls end the
\* tar and gzip streams.
HandleDirEnd ==
    /\ get.pc = "walk" /\ get.walk = <<>>
    /\ get' = [get EXCEPT !.pc = "done"]
    /\ UNCHANGED <<clock, transfers, records, uploads, sfiles, sdirs, poll, rejected>>

\* handleList: os.ReadDir(fullPath), answered 500 when it fails, else the
\* entries of the directory.
HandleList ==
    /\ get.pc = "readdir"
    /\ \/ get' = [get EXCEPT !.pc = "done", !.code = 500, !.fsops = @ + 1]
       \/ /\ get.full \in sdirs
          /\ get' = [get EXCEPT !.pc = "done", !.code = 200, !.fsops = @ + 1,
                !.listing = { [name |-> n, is_dir |-> Join(get.full, n) \in sdirs]
                                : n \in DirNames(sfiles, sdirs, get.full) }]
    /\ UNCHANGED <<clock, transfers, records, uploads, sfiles, sdirs, poll, rejected>>

\* The response of the download or list request has been read.
GetDone ==
    /\ get.pc = "done"
    /\ get' = IdleGet
    /\ UNCHANGED <<clock, transfers, records, uploads, sfiles, sdirs, poll, rejected>>

(***************************************************************************)
(* Client (pkg/client): UploadFile, DownloadFolder and DownloadFile.       *)
(***************************************************************************)

\* &TransferProgress{} of DownloadFolder
NoProgress == [ProcessedFiles |-> 0, ProcessedSize |-> 0, CurrentFile |-> <<>>]

\* No archive entry has been read.
NoEntry == [Name |-> <<>>, Size |-> 0, data |-> <<>>]

\* No download has been called. nread counts the archive headers read and
\* done lists the entries whose file was written in full, in order.
IdleDl ==
    [pc |-> "idle", kind |-> "none", remote |-> <<>>, local |-> <<>>,
     src |-> "none", settled |-> FALSE, code |-> 0, stream |-> <<>>,
     cur |-> NoEntry, body |-> <<>>, hash |-> <<>>, progress |-> NoProgress,
     callbacks |-> 0, warns |-> 0, logged |-> 0, nread |-> 0, done |-> <<>>,
     ret |-> "none"]

\* The client before any call, in an empty working directory.
ClientIdle ==
    /\ cfiles = <<>>
    /\ cdirs = {<<".">>, <<".", ".">>}
    /\ calls = <<>>
    /\ dl = IdleDl
    /\ LogLevel = "info"
    /\ vf = IdleVerify

Calls == 1..Len(calls)

\* UploadFolder's calls of UploadFile: for each file fp that collectFiles
\* found, relPath = filepath.Rel(localPath, fp) and
\* fullRemotePath = filepath.Join(remotePath, relPath).
UploadFolderCalls(localPath, remotePath) ==
    LET found == Walk(cfiles, cdirs, localPath)
    IN  [i \in 1..Len(found) |->
            [fp |-> found[i], remote |-> Join(remotePath, Rel(localPath, found[i])),
             by |-> "folder", pc |-> "ready", u |-> 0]]

\* UploadFolder(localPath, remotePath) up to the dispatch of its tasks.
UploadFolderPlan(localPath, remotePath) ==
    /\ calls = <<>>
    /\ localPath \in cdirs
    /\ calls' = UploadFolderCalls(localPath, remotePath)
    /\ UNCHANGED <<cfiles, cdirs, dl, LogLevel, vf>>

\* UploadFile(fp, remotePath) called on its own.
UploadFileAlone(fp, remotePath) ==
    /\ calls = <<>>
    /\ calls' = <<[fp |-> fp, remote |-> remotePath, by |-> "file",
                   pc |-> "ready", u |-> 0]>>
    /\ UNCHANGED <<cfiles, cdirs, dl, LogLevel, vf>>

\* A task of UploadFolder, launched in the order of the files once a slot of
\* the semaphore is free, calls UploadFile.
\* UploadFile: the multipart body (field "remote_path", and the file under
\* "files" with the wire name filepath.Base(remotePath)) is posted, and the
\* server's handleUpload takes the request. The server reads only the file
\* parts of the form.
UploadFileSend(c) ==
    LET call == calls[c]
        parts == <<[name |-> Base(call.remote), data |-> cfiles[call.fp]]>>
    IN
    /\ call.pc = "ready"
    /\ \A b \in 1..(c - 1) : calls[b].pc # "ready"
    /\ Cardinality({ b \in Calls : calls[b].pc = "sent" }) < Concurrency
    /\ call.fp \in DOMAIN cfiles
    /\ HandleUploadRegister(parts)
    /\ calls' = [calls EXCEPT ![c].pc = "sent", ![c].u = Len(uploads) + 1]
    /\ UNCHANGED <<cfiles, cdirs, dl, LogLevel, vf>>

\* UploadFile returns an error: os.Open, the transport or a status other than
\* 200.
UploadFileFails(c) ==
    /\ calls[c].pc \in {"ready", "sent"}
    /\ calls' = [calls EXCEPT ![c].pc = "err"]
    /\ UNCHANGED <<cfiles, cdirs, dl, LogLevel, vf>>

\* UploadFile returns nil: the response has status 200.
UploadFileReturns(c) ==
    /\ calls[c].pc = "sent"
    /\ uploads[calls[c].u].hpc = "responded"
    /\ calls' = [calls EXCEPT ![c].pc = "ok"]
    /\ UNCHANGED <<cfiles, cdirs, dl, LogLevel, vf>>

\* Every UploadFile call returned nil and its transfer is completed.
Settled ==
    /\ calls # <<>>
    /\ \A c \in Calls :
          /\ calls[c].pc = "ok"
          /\ uploads[calls[c].u].ppc = "done"
          /\ records[uploads[calls[c].u].status].Status = "completed"

\* DownloadFolder(remotePath, localPath): os.MkdirAll(localPath), then the GET
\* of /api/download?path=remotePath, sent to this server or to another peer.
DownloadFolderStart(remotePath, localPath, peer) ==
    /\ dl.pc = "idle"
    /\ IF MkdirAllOk(cfiles, cdirs, localPath)
       THEN /\ cdirs' = MkdirAll(cdirs, localPath)
            /\ dl' = [IdleDl EXCEPT !.pc = "wait", !.kind = "folder", !.src = peer,
                         !.remote = remotePath, !.local = localPath,
                         !.settled = Settled]
            /\ IF peer = "server"
               THEN GetArrive("download", remotePath)
               ELSE UNCHANGED svars
       ELSE /\ dl' = [IdleDl EXCEPT !.pc = "returned", !.kind = "folder",
                         !.remote = remotePath, !.local = localPath, !.ret = "io"]
            /\ UNCHANGED cdirs
            /\ UNCHANGED svars
    /\ UNCHANGED <<cfiles, calls, LogLevel, vf>>

\* DownloadFile(remotePath, localPath): os.MkdirAll(filepath.Dir(localPath)),
\* then the GET of /api/download?path=remotePath, sent to this server or to
\* another peer.
DownloadFileStart(remotePath, localPath, peer) ==
    /\ dl.pc = "idle"
    /\ IF MkdirAllOk(cfiles, cdirs, Dir(localPath))
       THEN /\ cdirs' = MkdirAll(cdirs, Dir(localPath))
            /\ dl' = [IdleDl EXCEPT !.pc = "wait", !.kind = "file", !.src = peer,
                         !.remote = remotePath, !.local = localPath,
                         !.settled = Settled]
            /\ IF peer = "server"
               THEN GetArrive("download", remotePath)
               ELSE UNCHANGED svars
       ELSE /\ dl' = [IdleDl EXCEPT !.pc = "returned", !.kind = "file",
                         !.remote = remotePath, !.local = localPath, !.ret = "io"]
            /\ UNCHANGED cdirs
            /\ UNCHANGED svars
    /\ UNCHANGED <<cfiles, calls, LogLevel, vf>>

\* http.Get fails, or the response is cut before it is read.
DownloadTransportFails ==
    /\ dl.pc = "wait"
    /\ dl' = [dl EXCEPT !.pc = "returned", !.ret = "io"]
    /\ UNCHANGED <<cfiles, cdirs, calls, LogLevel, vf>>

\* The server's response is read: a status other than 200 is an error; a
\* folder download opens the gzip stream (an error when the body is a plain
\* file) and a tar reader on it; a file download keeps body and X-File-Hash.
DownloadResponse ==
    /\ dl.pc = "wait" /\ dl.src = "server"
    /\ get.pc = "done"
    /\ IF get.code # 200
       THEN dl' = [dl EXCEPT !.pc = "returned", !.ret = "status", !.code = get.code]
       ELSE IF dl.kind = "folder"
       THEN IF get.id = NoID
            THEN dl' = [dl EXCEPT !.pc = "returned", !.ret = "io", !.code = 200]
            ELSE dl' = [dl EXCEPT !.pc = "next", !.code = 200, !.stream = get.stream]
       ELSE dl' = [dl EXCEPT !.pc = "create", !.code = 200, !.hash = get.hash,
                      !.body = IF get.id = NoID THEN get.body
                               ELSE ArchiveBytes(get.stream)]
    /\ UNCHANGED <<cfiles, cdirs, calls, LogLevel, vf>>

\* Another peer answers the file download with status 200, a body and an
\* X-File-Hash header of its own making ("" when it sends none).
ForeignFileResponse(body, header) ==
    /\ dl.pc = "wait" /\ dl.src = "foreign" /\ dl.kind = "file"
    /\ dl' = [dl EXCEPT !.pc = "create", !.code = 200, !.body = body, !.hash = header]
    /\ UNCHANGED <<cfiles, cdirs, calls, LogLevel, vf>>

\* Another peer answers the folder download with status 200 and an archive
\* of its own making.
ForeignResponse(stream) ==
    /\ dl.pc = "wait" /\ dl.src = "foreign" /\ dl.kind = "folder"
    /\ dl' = [dl EXCEPT !.pc = "next", !.code = 200, !.stream = stream]
    /\ UNCHANGED <<cfiles, cdirs, calls, LogLevel, vf>>

\* DownloadFolder: tarReader.Next() returns io.EOF (the loop ends and the
\* call returns nil), an error, or the next header.
DownloadFolderNext ==
    /\ dl.pc = "next"
    /\ \/ /\ dl.stream = <<>>
          /\ dl' = [dl EXCEPT !.pc = "returned", !.ret = "nil"]
       \/ dl' = [dl EXCEPT !.pc = "returned", !.ret = "io"]
       \/ /\ dl.stream # <<>>
          /\ dl' = [dl EXCEPT !.pc = "mkdir", !.cur = Head(dl.stream),
                              !.stream = Tail(dl.stream), !.nread = @ + 1]
    /\ UNCHANGED <<cfiles, cdirs, calls, LogLevel, vf>>

\* DownloadFolder: filePath := filepath.Join(localPath, header.Name) and
\* os.MkdirAll(filepath.Dir(filePath)).
DownloadFolderMkdir ==
    LET filePath == Join(dl.local, dl.cur.Name)
        dir == Dir(filePath)
    IN
    /\ dl.pc = "mkdir"
    /\ \/ /\ dl' = [dl EXCEPT !.pc = "returned", !.ret = "io"]
          /\ UNCHANGED cdirs
       \/ /\ MkdirAllOk(cfiles, cdirs, dir)
          /\ cdirs' = MkdirAll(cdirs, dir)
          /\ dl' = [dl EXCEPT !.pc = "create"]
    /\ UNCHANGED <<cfiles, calls, LogLevel, vf>>

\* DownloadFolderCreate that skips an entry whose file cannot be created.
DownloadFolderCreateSkip ==
    LET filePath == Join(dl.local, dl.cur.Name) IN
    /\ dl.pc = "create" /\ dl.kind = "folder"
    /\ \/ /\ dl' = [dl EXCEPT !.pc = "next"]
          /\ UNCHANGED cfiles
       \/ /\ CreateOk(cfiles, cdirs, filePath)
          /\ cfiles' = Create(cfiles, filePath)
          /\ dl' = [dl EXCEPT !.pc = "copy"]
    /\ UNCHANGED <<cdirs, calls, LogLevel, vf>>

\* DownloadFolder: os.Create(filePath).
DownloadFolderCreate ==
    LET filePath == Join(dl.local, dl.cur.Name) IN
    /\ dl.pc = "create" /\ dl.kind = "folder"
    /\ \/ /\ dl' = [dl EXCEPT !.pc = "returned", !.ret = "io"]
          /\ UNCHANGED cfiles
       \/ /\ CreateOk(cfiles, cdirs, filePath)
          /\ cfiles' = Create(cfiles, filePath)
          /\ dl' = [dl EXCEPT !.pc = "copy"]
    /\ UNCHANGED <<cdirs, calls, LogLevel, vf>>

\* DownloadFolderCopy with a rollback of the files written so far when the
\* copy fails.
DownloadFolderCopyRollback ==
    LET filePath == Join(dl.local, dl.cur.Name)
        data == dl.cur.data
        Without(fs, done) ==
            [q \in DOMAIN fs \ { done[k].path : k \in 1..Len(done) } |-> fs[q]]
    IN
    /\ dl.pc = "copy" /\ dl.kind = "folder"
    /\ \/ /\ Len(data) = dl.cur.Size
          /\ cfiles' = WriteFile(cfiles, filePath, data)
          /\ dl' = [dl EXCEPT !.pc = "progress",
                      !.done = Append(@, [path |-> filePath, data |-> data])]
       \/ /\ Len(data) < dl.cur.Size
          /\ cfiles' = Without(cfiles, dl.done)
          /\ dl' = [dl EXCEPT !.pc = "returned", !.ret = "io"]
       \/ /\ data # <<>>
          /\ cfiles' = Without(cfiles, dl.done)
          /\ dl' = [dl EXCEPT !.pc = "returned", !.ret = "io"]
    /\ UNCHANGED <<cdirs, calls, LogLevel, vf>>

\* DownloadFolder: written, err := io.Copy(file, tarReader). The copy fails
\* when the entry carries fewer bytes than its header says, or on a write
\* error.
DownloadFolderCopy ==
    LET filePath == Join(dl.local, dl.cur.Name)
        data == dl.cur.data
    IN
    /\ dl.pc = "copy" /\ dl.kind = "folder"
    /\ \/ /\ Len(data) = dl.cur.Size
          /\ cfiles' = WriteFile(cfiles, filePath, data)
          /\ dl' = [dl EXCEPT !.pc = "progress",
                      !.done = Append(@, [path |-> filePath, data |-> data])]
       \/ /\ Len(data) < dl.cur.Size
          /\ cfiles' = WriteFile(cfiles, filePath, data)
          /\ dl' = [dl EXCEPT !.pc = "returned", !.ret = "io"]
       \/ /\ \E k \in 0..(Len(data) - 1) :
                cfiles' = WriteFile(cfiles, filePath, SubSeq(data, 1, k))
          /\ dl' = [dl EXCEPT !.pc = "returned", !.ret = "io"]
    /\ UNCHANGED <<cdirs, calls, LogLevel, vf>>

\* DownloadFolderProgress with a failure of os.Chmod or os.Chtimes returned
\* as the error of the call.
DownloadFolderProgressAbort ==
    /\ dl.pc = "progress"
    /\ \E chmodFails \in BOOLEAN : \E chtimesFails \in BOOLEAN :
          IF chmodFails \/ chtimesFails
          THEN dl' = [dl EXCEPT !.pc = "returned", !.ret = "io", !.warns = @ + 1,
                                !.logged = @ + Logged(LogLevel, "warn")]
          ELSE dl' = [dl EXCEPT
                   !.pc = "next",
                   !.progress = [ProcessedFiles |-> @.ProcessedFiles + 1,
                                 ProcessedSize |-> @.ProcessedSize + Len(dl.cur.data),
                                 CurrentFile |-> dl.cur.Name],
                   !.callbacks = @ + 1]
    /\ UNCHANGED <<cfiles, cdirs, calls, LogLevel, vf>>

\* DownloadFolder: os.Chmod and os.Chtimes, whose failures are only logged as
\* warnings; then the progress record and the callback.
DownloadFolderProgress ==
    /\ dl.pc = "progress"
    /\ \E chmodFails \in BOOLEAN : \E chtimesFails \in BOOLEAN :
          dl' = [dl EXCEPT
                   !.pc = "next",
                   !.warns = @ + (IF chmodFails THEN 1 ELSE 0)
                               + (IF chtimesFails THEN 1 ELSE 0),
                   !.logged = @ + (IF chmodFails THEN Logged(LogLevel, "warn") ELSE 0)
                                + (IF chtimesFails THEN Logged(LogLevel, "warn") ELSE 0),
                   !.progress = [ProcessedFiles |-> @.ProcessedFiles + 1,
                                 ProcessedSize |-> @.ProcessedSize + Len(dl.cur.data),
                                 CurrentFile |-> dl.cur.Name],
                   !.callbacks = @ + 1]
    /\ UNCHANGED <<cfiles, cdirs, calls, LogLevel, vf>>

\* DownloadFile: os.Create(localPath).
DownloadFileCreate ==
    /\ dl.pc = "create" /\ dl.kind = "file"
    /\ \/ /\ dl' = [dl EXCEPT !.pc = "returned", !.ret = "io"]
          /\ UNCHANGED cfiles
       \/ /\ CreateOk(cfiles, cdirs, dl.local)
          /\ cfiles' = Create(cfiles, dl.local)
          /\ dl' = [dl EXCEPT !.pc = "copy"]
    /\ UNCHANGED <<cdirs, calls, LogLevel, vf>>

\* DownloadFile: written, err := io.Copy(file, resp.Body).
DownloadFileCopy ==
    /\ dl.pc = "copy" /\ dl.kind = "file"
    /\ \/ /\ cfiles' = WriteFile(cfiles, dl.local, dl.body)
          /\ dl' = [dl EXCEPT !.pc = "verify"]
       \/ /\ \E k \in 0..(Len(dl.body) - 1) :
                cfiles' = WriteFile(cfiles, dl.local, SubSeq(dl.body, 1, k))
          /\ dl' = [dl EXCEPT !.pc = "returned", !.ret = "io"]
    /\ UNCHANGED <<cdirs, calls, LogLevel, vf>>

\* DownloadFile: when X-File-Hash is present, verifyFileHash checks the
\* local file against it (hashing the file may fail as well); an error is
\* only passed to c.logger.Warn. The call returns nil.
DownloadFileVerify ==
    /\ dl.pc = "verify"
    /\ \E err \in (IF dl.hash = <<>> THEN {"nil"}
                   ELSE {VerifyFileHash(cfiles[dl.local], dl.hash), "hash"}) :
          dl' = [dl EXCEPT
                   !.pc = "returned", !.ret = "nil",
                   !.warns = IF err # "nil" THEN @ + 1 ELSE @,
                   !.logged = IF err # "nil" THEN @ + Logged(LogLevel, "warn") ELSE @]
    /\ UNCHANGED <<cfiles, cdirs, calls, LogLevel, vf>>

\* Hasher.VerifyFile or Hasher.VerifyReader is called on a hasher of type
\* hashType, with the expected hash and a file or stream holding bytes.
VerifyCall(kind, hashType, expected, bytes) ==
    /\ vf.pc = "idle"
    /\ vf' = [IdleVerify EXCEPT !.pc = "check", !.kind = kind, !.hashType = hashType,
                                !.expected = expected, !.bytes = bytes]
    /\ UNCHANGED <<cfiles, cdirs, calls, dl, LogLevel>>

\* VerifyAlgorithm with the test of the algorithm made after the hashing.
VerifyAlgorithmLate ==
    /\ vf.pc = "check"
    /\ vf' = [vf EXCEPT !.pc = IF vf.kind = "file" THEN "open" ELSE "read"]
    /\ UNCHANGED <<cfiles, cdirs, calls, dl, LogLevel>>

\* VerifyAlgorithm with an algorithm mismatch reported as plain false.
VerifyAlgorithmAsFalse ==
    /\ vf.pc = "check"
    /\ IF vf.expected.Algorithm # vf.hashType
       THEN vf' = [vf EXCEPT !.pc = "done", !.ok = FALSE]
       ELSE vf' = [vf EXCEPT !.pc = IF vf.kind = "file" THEN "open" ELSE "read"]
    /\ UNCHANGED <<cfiles, cdirs, calls, dl, LogLevel>>

\* if expectedHash.Algorithm != h.hashType { return false, error }
VerifyAlgorithm ==
    /\ vf.pc = "check"
    /\ IF vf.expected.Algorithm # vf.hashType
       THEN vf' = [vf EXCEPT !.pc = "done", !.ok = FALSE, !.err = "algorithm"]
       ELSE vf' = [vf EXCEPT !.pc = IF vf.kind = "file" THEN "open" ELSE "read"]
    /\ UNCHANGED <<cfiles, cdirs, calls, dl, LogLevel>>

\* HashFile: os.Open(filePath), which may fail.
VerifyOpen ==
    /\ vf.pc = "open"
    /\ \/ vf' = [vf EXCEPT !.pc = "done", !.ok = FALSE, !.err = "open"]
       \/ vf' = [vf EXCEPT !.pc = "read", !.opened = TRUE]
    /\ UNCHANGED <<cfiles, cdirs, calls, dl, LogLevel>>

\* HashReader: an unknown algorithm is an error before any read; io.Copy
\* reads the bytes (and may fail); then
\* return actualHash.Value == expectedHash.Value, nil. Under the test made
\* late the algorithms are compared here.
VerifyRead ==
    LET h == HashReader(vf.hashType, vf.bytes) IN
    /\ vf.pc = "read"
    /\ IF h.err # ""
       THEN vf' = [vf EXCEPT !.pc = "done", !.ok = FALSE, !.err = "unsupported"]
       ELSE \/ \E k \in 0..(Len(vf.bytes) - 1) :
                  vf' = [vf EXCEPT !.pc = "done", !.ok = FALSE, !.err = "read",
                                   !.read = k]
            \/ vf' = [vf EXCEPT !.pc = "done", !.read = Len(vf.bytes),
                         !.ok = (h.Value = vf.expected.Value
                                   /\ vf.expected.Algorithm = vf.hashType),
                         !.err = IF vf.expected.Algorithm # vf.hashType
                                 THEN "algorithm" ELSE ""]
    /\ UNCHANGED <<cfiles, cdirs, calls, dl, LogLevel>>

\* The verification call has returned (ok, err) to its caller.
VerifyReturn ==
    /\ vf.pc = "done"
    /\ vf' = IdleVerify
    /\ UNCHANGED <<cfiles, cdirs, calls, dl, LogLevel>>

(***************************************************************************)
(* Client.UploadFolder (pkg/client): the bounded-concurrency dispatcher.   *)
(***************************************************************************)

\* Bounds of the dispatcher model.
MaxFiles == 3
MaxConcurrency == 2
MaxFileSize == 1

Files == 1..files

ZeroProgress ==
    [TotalFiles |-> 0, ProcessedFiles |-> 0, TotalSize |-> 0,
     ProcessedSize |-> 0, CurrentFile |-> 0]

\* The state before UploadFolder is called.
DispatchIdle ==
    /\ dpc = "collect" /\ idx = 1 /\ sem = 0 /\ wg = 0 /\ mu = 0
    /\ uploadErr = 0 /\ progress = ZeroProgress
    /\ tpc = [i \in 1..MaxFiles |-> "none"]
    /\ failed = {} /\ called = {} /\ errWrites = 0
    /\ cbCount = 0 /\ lastCb = ZeroProgress /\ dret = "none"

\* collectFiles fails: UploadFolder returns the wrapped error.
CollectFails ==
    /\ dpc = "collect"
    /\ dpc' = "returned" /\ dret' = "collectError"
    /\ UNCHANGED <<files, Concurrency, idx, sem, wg, mu, uploadErr, progress, tpc,
                   failed, called, errWrites, cbCount, lastCb>>

\* CollectAndSize without the test for an empty list.
CollectAndSizeUnchecked ==
    /\ dpc = "collect"
    /\ \E total \in 0..(files * MaxFileSize) :
          progress' = [ZeroProgress EXCEPT !.TotalFiles = files,
                                           !.TotalSize = total]
    /\ dpc' = "add" /\ UNCHANGED dret
    /\ UNCHANGED <<files, Concurrency, idx, sem, wg, mu, uploadErr, tpc,
                   failed, called, errWrites, cbCount, lastCb>>

\* collectFiles succeeds; an empty list is refused, otherwise the progress
\* record is created and the sizing pass adds the size of every file whose
\* Stat succeeds (a failed Stat adds nothing).
CollectAndSize ==
    /\ dpc = "collect"
    /\ IF files = 0
       THEN /\ dpc' = "returned" /\ dret' = "noFiles"
            /\ UNCHANGED progress
       ELSE /\ \E total \in 0..(files * MaxFileSize) :
                 progress' = [ZeroProgress EXCEPT !.TotalFiles = files,
                                                  !.TotalSize = total]
            /\ dpc' = "add" /\ UNCHANGED dret
    /\ UNCHANGED <<files, Concurrency, idx, sem, wg, mu, uploadErr, tpc,
                   failed, called, errWrites, cbCount, lastCb>>

\* wg.Add(1)
LoopAdd ==
    /\ dpc = "add"
    /\ wg' = wg + 1
    /\ dpc' = "acquire"
    /\ UNCHANGED <<files, Concurrency, idx, sem, mu, uploadErr, progress, tpc,
                   failed, called, errWrites, cbCount, lastCb, dret>>

\* LoopAcquire with a send that never blocks (no admission control).
LoopAcquireUnbounded ==
    /\ dpc = "acquire"
    /\ sem' = sem + 1
    /\ dpc' = "go"
    /\ UNCHANGED <<files, Concurrency, idx, wg, mu, uploadErr, progress, tpc,
                   failed, called, errWrites, cbCount, lastCb, dret>>

\* LoopAcquire on a semaphore whose capacity defaults to 1 when the
\* configured limit is 0.
LoopAcquireDefaulted ==
    /\ dpc = "acquire"
    /\ sem < (IF Concurrency = 0 THEN 1 ELSE Concurrency)
    /\ sem' = sem + 1
    /\ dpc' = "go"
    /\ UNCHANGED <<files, Concurrency, idx, wg, mu, uploadErr, progress, tpc,
                   failed, called, errWrites, cbCount, lastCb, dret>>

\* sem <- struct{}{}: blocks while the channel is full.
LoopAcquire ==
    /\ dpc = "acquire"
    /\ sem < Concurrency
    /\ sem' = sem + 1
    /\ dpc' = "go"
    /\ UNCHANGED <<files, Concurrency, idx, wg, mu, uploadErr, progress, tpc,
                   failed, called, errWrites, cbCount, lastCb, dret>>

\* go func(fp string) {...}(filePath), then the next iteration or wg.Wait().
LoopGo ==
    /\ dpc = "go"
    /\ tpc' = [tpc EXCEPT ![idx] = "start"]
    /\ idx' = idx + 1
    /\ dpc' = IF idx = files THEN "wait" ELSE "add"
    /\ UNCHANGED <<files, Concurrency, sem, wg, mu, uploadErr, progress,
                   failed, called, errWrites, cbCount, lastCb, dret>>

\* filepath.Rel fails: the task goes to record the error.
TaskRelFails(i) ==
    /\ tpc[i] = "start"
    /\ tpc' = [tpc EXCEPT ![i] = "errLock"]
    /\ failed' = failed \cup {i}
    /\ UNCHANGED <<files, Concurrency, dpc, idx, sem, wg, mu, uploadErr, progress,
                   called, errWrites, cbCount, lastCb, dret>>

\* filepath.Rel and filepath.Join succeed and c.UploadFile is called.
TaskCallUpload(i) ==
    /\ tpc[i] = "start"
    /\ tpc' = [tpc EXCEPT ![i] = "uploading"]
    /\ called' = called \cup {i}
    /\ UNCHANGED <<files, Concurrency, dpc, idx, sem, wg, mu, uploadErr, progress,
                   failed, errWrites, cbCount, lastCb, dret>>

\* c.UploadFile returns: nil, or an error.
TaskUploadReturns(i) ==
    /\ tpc[i] = "uploading"
    /\ \E ok \in BOOLEAN :
          /\ tpc' = [tpc EXCEPT ![i] = IF ok THEN "okLock" ELSE "errLock"]
          /\ failed' = IF ok THEN failed ELSE failed \cup {i}
    /\ UNCHANGED <<files, Concurrency, dpc, idx, sem, wg, mu, uploadErr, progress,
                   called, errWrites, cbCount, lastCb, dret>>

\* TaskLock with a lock that never waits.
TaskLockNoWait(i) ==
    /\ tpc[i] \in {"errLock", "okLock"}
    /\ mu' = i
    /\ tpc' = [tpc EXCEPT ![i] = IF tpc[i] = "errLock" THEN "errSet" ELSE "okCount"]
    /\ UNCHANGED <<files, Concurrency, dpc, idx, sem, wg, uploadErr, progress,
                   failed, called, errWrites, cbCount, lastCb, dret>>

\* mu.Lock() on either path.
TaskLock(i) ==
    /\ tpc[i] \in {"errLock", "okLock"}
    /\ mu = 0
    /\ mu' = i
    /\ tpc' = [tpc EXCEPT ![i] = IF tpc[i] = "errLock" THEN "errSet" ELSE "okCount"]
    /\ UNCHANGED <<files, Concurrency, dpc, idx, sem, wg, uploadErr, progress,
                   failed, called, errWrites, cbCount, lastCb, dret>>

\* TaskRecordError without the nil test: the last error wins.
TaskRecordErrorOverwrite(i) ==
    /\ tpc[i] = "errSet"
    /\ uploadErr' = i /\ errWrites' = errWrites + 1
    /\ tpc' = [tpc EXCEPT ![i] = "unlock"]
    /\ UNCHANGED <<files, Concurrency, dpc, idx, sem, wg, mu, progress,
                   failed, called, cbCount, lastCb, dret>>

\* if uploadErr == nil { uploadErr = ... }
TaskRecordError(i) ==
    /\ tpc[i] = "errSet"
    /\ IF uploadErr = 0
       THEN uploadErr' = i /\ errWrites' = errWrites + 1
       ELSE UNCHANGED <<uploadErr, errWrites>>
    /\ tpc' = [tpc EXCEPT ![i] = "unlock"]
    /\ UNCHANGED <<files, Concurrency, dpc, idx, sem, wg, mu, progress,
                   failed, called, cbCount, lastCb, dret>>

\* progress.ProcessedFiles++
TaskCount(i) ==
    /\ tpc[i] = "okCount"
    /\ progress' = [progress EXCEPT !.ProcessedFiles = @ + 1]
    /\ tpc' = [tpc EXCEPT ![i] = "okSize"]
    /\ UNCHANGED <<files, Concurrency, dpc, idx, sem, wg, mu, uploadErr,
                   failed, called, errWrites, cbCount, lastCb, dret>>

\* os.Stat(fp): ProcessedSize grows by the size read (by nothing when Stat
\* fails); then progress.CurrentFile = relPath.
TaskSize(i) ==
    /\ tpc[i] = "okSize"
    /\ \E size \in 0..MaxFileSize :
          progress' = [progress EXCEPT !.ProcessedSize = @ + size,
                                       !.CurrentFile = i]
    /\ tpc' = [tpc EXCEPT ![i] = "okCallback"]
    /\ UNCHANGED <<files, Concurrency, dpc, idx, sem, wg, mu, uploadErr,
                   failed, called, errWrites, cbCount, lastCb, dret>>

\* progressCallback(progress)
TaskCallback(i) ==
    /\ tpc[i] = "okCallback"
    /\ cbCount' = cbCount + 1
    /\ lastCb' = progress
    /\ tpc' = [tpc EXCEPT ![i] = "unlock"]
    /\ UNCHANGED <<files, Concurrency, dpc, idx, sem, wg, mu, uploadErr, progress,
                   failed, called, errWrites, dret>>

\* TaskUnlock with an error path that returns with the mutex held.
TaskUnlockOnSuccessOnly(i) ==
    /\ tpc[i] = "unlock"
    /\ mu' = IF mu = i /\ i \notin failed THEN 0 ELSE mu
    /\ tpc' = [tpc EXCEPT ![i] = "release"]
    /\ UNCHANGED <<files, Concurrency, dpc, idx, sem, wg, uploadErr, progress,
                   failed, called, errWrites, cbCount, lastCb, dret>>

\* mu.Unlock(), on either path; the deferred calls are next.
TaskUnlock(i) ==
    /\ tpc[i] = "unlock"
    /\ mu' = IF mu = i THEN 0 ELSE mu
    /\ tpc' = [tpc EXCEPT ![i] = "release"]
    /\ UNCHANGED <<files, Concurrency, dpc, idx, sem, wg, uploadErr, progress,
                   failed, called, errWrites, cbCount, lastCb, dret>>

\* TaskRelease with a release on the success path only.
TaskReleaseOnSuccessOnly(i) ==
    /\ tpc[i] = "release"
    /\ sem > 0
    /\ sem' = IF i \in failed THEN sem ELSE sem - 1
    /\ tpc' = [tpc EXCEPT ![i] = "wgDone"]
    /\ UNCHANGED <<files, Concurrency, dpc, idx, wg, mu, uploadErr, progress,
                   failed, called, errWrites, cbCount, lastCb, dret>>

\* defer func() { <-sem }(): the deferred call registered last runs first.
TaskRelease(i) ==
    /\ tpc[i] = "release"
    /\ sem > 0
    /\ sem' = sem - 1
    /\ tpc' = [tpc EXCEPT ![i] = "wgDone"]
    /\ UNCHANGED <<files, Concurrency, dpc, idx, wg, mu, uploadErr, progress,
                   failed, called, errWrites, cbCount, lastCb, dret>>

\* defer wg.Done()
TaskDone(i) ==
    /\ tpc[i] = "wgDone"
    /\ wg' = wg - 1
    /\ tpc' = [tpc EXCEPT ![i] = "exited"]
    /\ UNCHANGED <<files, Concurrency, dpc, idx, sem, mu, uploadErr, progress,
                   failed, called, errWrites, cbCount, lastCb, dret>>

\* WaitAndReturn with a wg.Wait() that does not wait.
WaitAndReturnEarly ==
    /\ dpc = "wait"
    /\ dpc' = "returned"
    /\ dret' = IF uploadErr # 0 THEN "uploadErr" ELSE "nil"
    /\ UNCHANGED <<files, Concurrency, idx, sem, wg, mu, uploadErr, progress, tpc,
                   failed, called, errWrites, cbCount, lastCb>>

\* wg.Wait() returns once the counter is zero; UploadFolder returns uploadErr
\* when one is recorded and nil otherwise.
WaitAndReturn ==
    /\ dpc = "wait"
    /\ wg = 0
    /\ dpc' = "returned"
    /\ dret' = IF uploadErr # 0 THEN "uploadErr" ELSE "nil"
    /\ UNCHANGED <<files, Concurrency, idx, sem, wg, mu, uploadErr, progress, tpc,
                   failed, called, errWrites, cbCount, lastCb>>

(***************************************************************************)
(* Specifications.                                                         *)
(***************************************************************************)

InitDispatch ==
    /\ files \in 0..MaxFiles
    /\ Concurrency \in 0..MaxConcurrency
    /\ DispatchIdle
    /\ ServerIdle
    /\ ClientIdle

NextDispatch ==
    \/ CollectFails /\ UNCHANGED <<svars, cvars>>
    \/ CollectAndSize /\ UNCHANGED <<svars, cvars>>
    \/ LoopAdd /\ UNCHANGED <<svars, cvars>>
    \/ LoopAcquire /\ UNCHANGED <<svars, cvars>>
    \/ LoopGo /\ UNCHANGED <<svars, cvars>>
    \/ \E i \in Files : TaskRelFails(i) /\ UNCHANGED <<svars, cvars>>
    \/ \E i \in Files : TaskCallUpload(i) /\ UNCHANGED <<svars, cvars>>
    \/ \E i \in Files : TaskUploadReturns(i) /\ UNCHANGED <<svars, cvars>>
    \/ \E i \in Files : TaskLock(i) /\ UNCHANGED <<svars, cvars>>
    \/ \E i \in Files : TaskRecordError(i) /\ UNCHANGED <<svars, cvars>>
    \/ \E i \in Files : TaskCount(i) /\ UNCHANGED <<svars, cvars>>
    \/ \E i \in Files : TaskSize(i) /\ UNCHANGED <<svars, cvars>>
    \/ \E i \in Files : TaskCallback(i) /\ UNCHANGED <<svars, cvars>>
    \/ \E i \in Files : TaskUnlock(i) /\ UNCHANGED <<svars, cvars>>
    \/ \E i \in Files : TaskRelease(i) /\ UNCHANGED <<svars, cvars>>
    \/ \E i \in Files : TaskDone(i) /\ UNCHANGED <<svars, cvars>>
    \/ WaitAndReturn /\ UNCHANGED <<svars, cvars>>

SpecDispatch == InitDispatch /\ [][NextDispatch]_vars

\* The dispatcher under the scheduler's guarantee that a step is taken while
\* some goroutine can run, every UploadFile call returning.
SpecDispatchLive == SpecDispatch /\ WF_vars(NextDispatch)

NextServer ==
    \/ HandleUploadReject /\ UNCHANGED <<dvars, cvars>>
    \/ \E parts \in ServerPartLists : HandleUploadRegister(parts) /\ UNCHANGED <<dvars, cvars>>
    \/ \E u \in Uploads : HandleUploadGo(u) /\ UNCHANGED <<dvars, cvars>>
    \/ \E u \in Uploads : HandleUploadRespond(u) /\ UNCHANGED <<dvars, cvars>>
    \/ \E u \in Uploads : ProcessStart(u) /\ UNCHANGED <<dvars, cvars>>
    \/ \E u \in Uploads : ProcessTotalFiles(u) /\ UNCHANGED <<dvars, cvars>>
    \/ \E u \in Uploads : ProcessTotalSize(u) /\ UNCHANGED <<dvars, cvars>>
    \/ \E u \in Uploads : ProcessCreate(u) /\ UNCHANGED <<dvars, cvars>>
    \/ \E u \in Uploads : ProcessCopy(u) /\ UNCHANGED <<dvars, cvars>>
    \/ \E u \in Uploads : ProcessCount(u) /\ UNCHANGED <<dvars, cvars>>
    \/ \E u \in Uploads : ProcessProgress(u) /\ UNCHANGED <<dvars, cvars>>
    \/ \E u \in Uploads : ProcessFailStatus(u) /\ UNCHANGED <<dvars, cvars>>
    \/ \E u \in Uploads : ProcessFailError(u) /\ UNCHANGED <<dvars, cvars>>
    \/ \E u \in Uploads : ProcessComplete(u) /\ UNCHANGED <<dvars, cvars>>
    \/ \E u \in Uploads : ProcessEnd(u) /\ UNCHANGED <<dvars, cvars>>
    \/ \E id \in (0..MaxClock) \cup {NoID} : HandleStatusLookup(id) /\ UNCHANGED <<dvars, cvars>>
    \/ HandleStatusEncode /\ UNCHANGED <<dvars, cvars>>
    \/ StatusDone /\ UNCHANGED <<dvars, cvars>>

InitServer ==
    /\ files = 0 /\ Concurrency = 0 /\ DispatchIdle
    /\ ServerIdle
    /\ ClientIdle

SpecServer == InitServer /\ [][NextServer]_vars

\* Bound of the request model: the longest path parameter drawn freely.
MaxPathLen == 4

\* The strings of length at most n over the characters "a", "." and "/".
PathsUpTo(n) == UNION { [1..k -> {"a", ".", "/"}] : k \in 0..n }

\* "../../etc/passwd", "a/../../b" and "a/b/../../.."
EscapingPaths ==
    { <<".", ".", "/", ".", ".", "/", "e", "t", "c", "/", "p", "a", "s", "s", "w", "d">>,
      <<"a", "/", ".", ".", "/", ".", ".", "/", "b">>,
      <<"a", "/", "b", "/", ".", ".", "/", ".", ".", "/", ".", ".">> }

\* "a/./b"
DottedPath == <<"a", "/", ".", "/", "b">>

\* Path parameters of the requests of the request model: every short string,
\* and the four paths of the specification's examples.
RequestPaths == PathsUpTo(MaxPathLen) \cup EscapingPaths \cup {DottedPath}

\* The storage of the request model: u/aa, u/a/a and u/a/b/a.
InitRequest ==
    /\ files = 0 /\ Concurrency = 0 /\ DispatchIdle
    /\ ClientIdle
    /\ clock = 0 /\ transfers = <<>> /\ records = <<>> /\ uploads = <<>>
    /\ poll = IdlePoll /\ get = IdleGet /\ rejected = 0
    /\ sfiles = (<<"u", "/", "a", "a">> :> <<"x", "y">>)
                  @@ (<<"u", "/", "a", "/", "a">> :> <<"x">>)
                  @@ (<<"u", "/", "a", "/", "b", "/", "a">> :> <<"y">>)
    /\ sdirs = {<<".">>, <<".", ".">>, StoragePath, <<"u", "/", "a">>,
                <<"u", "/", "a", "/", "b">>}

NextRequest ==
    \/ \E kind \in {"download", "list"} : \E path \in RequestPaths :
          GetArrive(kind, path) /\ UNCHANGED <<dvars, cvars>>
    \/ HandleGetSanitize /\ UNCHANGED <<dvars, cvars>>
    \/ HandleDownloadStat /\ UNCHANGED <<dvars, cvars>>
    \/ HandleFileOpen /\ UNCHANGED <<dvars, cvars>>
    \/ HandleFileHash /\ UNCHANGED <<dvars, cvars>>
    \/ HandleFileCopy /\ UNCHANGED <<dvars, cvars>>
    \/ HandleDirEntry /\ UNCHANGED <<dvars, cvars>>
    \/ HandleDirEnd /\ UNCHANGED <<dvars, cvars>>
    \/ HandleList /\ UNCHANGED <<dvars, cvars>>
    \/ GetDone /\ UNCHANGED <<dvars, cvars>>

SpecRequest == InitRequest /\ [][NextRequest]_vars

\* Bound of the archive model: the most entries in another peer's archive.
MaxEntries == 2

\* The files a stored tree of the archive model is drawn from, below u/t.
ArchiveFiles ==
    (<<"u", "/", "t", "/", "a">> :> <<"x">>)
      @@ (<<"u", "/", "t", "/", "a", ".", "b">> :> <<"x", "y">>)
      @@ (<<"u", "/", "t", "/", "d", "/", "a">> :> <<"y">>)
      @@ (<<"u", "/", "t", "/", "d", "/", "e", "/", "b">> :> <<>>)

\* The directories of a tree with the files S, besides the given ones.
TreeDirs(given, S) == given \cup UNION { MkdirAll({<<".">>}, Dir(q)) : q \in S }

\* The path parameters of the folder downloads of the archive model.
ArchivePaths == { <<"t">>, <<"t", "/", "d">>, <<"t", "/", "a">> }

\* The entry names of another peer's archives.
ForeignNames == { <<"a">>, <<"d", "/", "a">>, <<".", ".", "/", "e">> }

\* The archives another peer may answer with.
ForeignStreams ==
    UNION { [1..n -> { Entry([Name |-> nm, Size |-> 1], <<"x">>) : nm \in ForeignNames }]
              : n \in 0..MaxEntries }

\* The archive model: a stored tree below u/t (u/t/c is an empty directory),
\* and a client in an empty working directory.
InitArchive ==
    /\ files = 0 /\ Concurrency = 0 /\ DispatchIdle
    /\ ClientIdle
    /\ clock = 0 /\ transfers = <<>> /\ records = <<>> /\ uploads = <<>>
    /\ poll = IdlePoll /\ get = IdleGet /\ rejected = 0
    /\ \E S \in SUBSET DOMAIN ArchiveFiles :
          /\ sfiles = [q \in S |-> ArchiveFiles[q]]
          /\ sdirs = TreeDirs({<<".">>, <<".", ".">>, StoragePath,
                               <<"u", "/", "t">>, <<"u", "/", "t", "/", "c">>}, S)

NextArchive ==
    \/ \E remotePath \in ArchivePaths : \E peer \in {"server", "foreign"} :
          DownloadFolderStart(remotePath, <<"l">>, peer) /\ UNCHANGED dvars
    \/ HandleGetSanitize /\ UNCHANGED <<dvars, cvars>>
    \/ HandleDownloadStat /\ UNCHANGED <<dvars, cvars>>
    \/ HandleFileOpen /\ UNCHANGED <<dvars, cvars>>
    \/ HandleFileHash /\ UNCHANGED <<dvars, cvars>>
    \/ HandleFileCopy /\ UNCHANGED <<dvars, cvars>>
    \/ HandleDirEntry /\ UNCHANGED <<dvars, cvars>>
    \/ HandleDirEnd /\ UNCHANGED <<dvars, cvars>>
    \/ DownloadTransportFails /\ UNCHANGED <<dvars, svars>>
    \/ DownloadResponse /\ UNCHANGED <<dvars, svars>>
    \/ \E stream \in ForeignStreams : ForeignResponse(stream) /\ UNCHANGED <<dvars, svars>>
    \/ DownloadFolderNext /\ UNCHANGED <<dvars, svars>>
    \/ DownloadFolderMkdir /\ UNCHANGED <<dvars, svars>>
    \/ DownloadFolderCreate /\ UNCHANGED <<dvars, svars>>
    \/ DownloadFolderCopy /\ UNCHANGED <<dvars, svars>>
    \/ DownloadFolderProgress /\ UNCHANGED <<dvars, svars>>

SpecArchive == InitArchive /\ [][NextArchive]_vars

\* The files a local tree of the transfer model is drawn from, below l.
LocalFiles ==
    (<<"l", "/", "a">> :> <<"x">>)
      @@ (<<"l", "/", "d", "/", "a">> :> <<"y">>)

\* The remote paths UploadFolder is called with: "r" and "".
RemoteRoots == { <<"r">>, <<>> }

\* The remote paths UploadFile is called with on its own.
RemotePaths == { <<"a">>, <<"d", "/", "a">>, <<"a", ".", ".">> }

\* The transfer model: an empty storage directory, and a local tree of one
\* or two files below l.
InitTransfer ==
    /\ files = 0 /\ Concurrency = 1 /\ DispatchIdle
    /\ ServerIdle
    /\ calls = <<>> /\ dl = IdleDl /\ LogLevel = "info" /\ vf = IdleVerify
    /\ \E S \in SUBSET DOMAIN LocalFiles :
          /\ Cardinality(S) \in {1, 2}
          /\ cfiles = [q \in S |-> LocalFiles[q]]
          /\ cdirs = TreeDirs({<<".">>, <<".", ".">>, <<"l">>}, S)

NextTransfer ==
    \/ \E remotePath \in RemoteRoots :
          UploadFolderPlan(<<"l">>, remotePath) /\ UNCHANGED <<dvars, svars>>
    \/ \E fp \in DOMAIN cfiles : \E remotePath \in RemotePaths :
          UploadFileAlone(fp, remotePath) /\ UNCHANGED <<dvars, svars>>
    \/ \E c \in Calls : UploadFileSend(c) /\ UNCHANGED dvars
    \/ \E c \in Calls : UploadFileFails(c) /\ UNCHANGED <<dvars, svars>>
    \/ \E c \in Calls : UploadFileReturns(c) /\ UNCHANGED <<dvars, svars>>
    \/ \E u \in Uploads : HandleUploadGo(u) /\ UNCHANGED <<dvars, cvars>>
    \/ \E u \in Uploads : HandleUploadRespond(u) /\ UNCHANGED <<dvars, cvars>>
    \/ \E u \in Uploads : ProcessStart(u) /\ UNCHANGED <<dvars, cvars>>
    \/ \E u \in Uploads : ProcessTotalFiles(u) /\ UNCHANGED <<dvars, cvars>>
    \/ \E u \in Uploads : ProcessTotalSize(u) /\ UNCHANGED <<dvars, cvars>>
    \/ \E u \in Uploads : ProcessCreate(u) /\ UNCHANGED <<dvars, cvars>>
    \/ \E u \in Uploads : ProcessCopy(u) /\ UNCHANGED <<dvars, cvars>>
    \/ \E u \in Uploads : ProcessCount(u) /\ UNCHANGED <<dvars, cvars>>
    \/ \E u \in Uploads : ProcessProgress(u) /\ UNCHANGED <<dvars, cvars>>
    \/ \E u \in Uploads : ProcessFailStatus(u) /\ UNCHANGED <<dvars, cvars>>
    \/ \E u \in Uploads : ProcessFailError(u) /\ UNCHANGED <<dvars, cvars>>
    \/ \E u \in Uploads : ProcessComplete(u) /\ UNCHANGED <<dvars, cvars>>
    \/ \E u \in Uploads : ProcessEnd(u) /\ UNCHANGED <<dvars, cvars>>
    \/ /\ \A c \in Calls : calls[c].pc \in {"ok", "err"}
       /\ \E c \in Calls : DownloadFileStart(calls[c].remote, <<"o">>, "server")
       /\ UNCHANGED dvars
    \/ HandleGetSanitize /\ UNCHANGED <<dvars, cvars>>
    \/ HandleDownloadStat /\ UNCHANGED <<dvars, cvars>>
    \/ HandleFileOpen /\ UNCHANGED <<dvars, cvars>>
    \/ HandleFileHash /\ UNCHANGED <<dvars, cvars>>
    \/ HandleFileCopy /\ UNCHANGED <<dvars, cvars>>
    \/ DownloadTransportFails /\ UNCHANGED <<dvars, svars>>
    \/ DownloadResponse /\ UNCHANGED <<dvars, svars>>
    \/ DownloadFileCreate /\ UNCHANGED <<dvars, svars>>
    \/ DownloadFileCopy /\ UNCHANGED <<dvars, svars>>
    \/ DownloadFileVerify /\ UNCHANGED <<dvars, svars>>

SpecTransfer == InitTransfer /\ [][NextTransfer]_vars

\* Bound of the registry model: the most upload requests accepted.
MaxRegistryUploads == 1

\* The path parameters of the download and list requests of the registry
\* model: an absent file, the storage root and a refused path.
RegistryPaths == { <<"a">>, <<".">>, <<".", ".">> }

\* The registry model: the server under upload, status, download and list
\* requests together.
NextRegistry ==
    \/ HandleUploadReject /\ UNCHANGED <<dvars, cvars>>
    \/ /\ Len(uploads) < MaxRegistryUploads
       /\ \E parts \in ServerPartLists : HandleUploadRegister(parts)
       /\ UNCHANGED <<dvars, cvars>>
    \/ \E u \in Uploads : HandleUploadGo(u) /\ UNCHANGED <<dvars, cvars>>
    \/ \E u \in Uploads : HandleUploadRespond(u) /\ UNCHANGED <<dvars, cvars>>
    \/ \E u \in Uploads : ProcessStart(u) /\ UNCHANGED <<dvars, cvars>>
    \/ \E u \in Uploads : ProcessTotalFiles(u) /\ UNCHANGED <<dvars, cvars>>
    \/ \E u \in Uploads : ProcessTotalSize(u) /\ UNCHANGED <<dvars, cvars>>
    \/ \E u \in Uploads : ProcessCreate(u) /\ UNCHANGED <<dvars, cvars>>
    \/ \E u \in Uploads : ProcessCopy(u) /\ UNCHANGED <<dvars, cvars>>
    \/ \E u \in Uploads : ProcessCount(u) /\ UNCHANGED <<dvars, cvars>>
    \/ \E u \in Uploads : ProcessProgress(u) /\ UNCHANGED <<dvars, cvars>>
    \/ \E u \in Uploads : ProcessFailStatus(u) /\ UNCHANGED <<dvars, cvars>>
    \/ \E u \in Uploads : ProcessFailError(u) /\ UNCHANGED <<dvars, cvars>>
    \/ \E u \in Uploads : ProcessComplete(u) /\ UNCHANGED <<dvars, cvars>>
    \/ \E u \in Uploads : ProcessEnd(u) /\ UNCHANGED <<dvars, cvars>>
    \/ \E id \in (0..MaxClock) \cup {NoID} : HandleStatusLookup(id) /\ UNCHANGED <<dvars, cvars>>
    \/ HandleStatusEncode /\ UNCHANGED <<dvars, cvars>>
    \/ StatusDone /\ UNCHANGED <<dvars, cvars>>
    \/ \E kind \in {"download", "list"} : \E path \in RegistryPaths :
          GetArrive(kind, path) /\ UNCHANGED <<dvars, cvars>>
    \/ HandleGetSanitize /\ UNCHANGED <<dvars, cvars>>
    \/ HandleDownloadStat /\ UNCHANGED <<dvars, cvars>>
    \/ HandleFileOpen /\ UNCHANGED <<dvars, cvars>>
    \/ HandleFileHash /\ UNCHANGED <<dvars, cvars>>
    \/ HandleFileCopy /\ UNCHANGED <<dvars, cvars>>
    \/ HandleDirEntry /\ UNCHANGED <<dvars, cvars>>
    \/ HandleDirEnd /\ UNCHANGED <<dvars, cvars>>
    \/ HandleList /\ UNCHANGED <<dvars, cvars>>
    \/ GetDone /\ UNCHANGED <<dvars, cvars>>

SpecRegistry == InitServer /\ [][NextRegistry]_vars

\* The contents of the files and streams of the verification models.
Contents == { <<>>, <<"x">>, <<"x", "y">> }

\* The algorithm names of the verification models: the two known ones and an
\* unknown one.
AlgorithmNames == { "md5", "sha256", "crc" }

\* The expected hashes of the verification model.
ExpectedHashes ==
    { [Algorithm |-> a, Value |-> Digest(a, b)] : a \in AlgorithmNames, b \in Contents }

NextVerify ==
    \/ \E kind \in {"file", "reader"} : \E hashType \in AlgorithmNames :
       \E expected \in ExpectedHashes : \E bytes \in Contents :
          VerifyCall(kind, hashType, expected, bytes) /\ UNCHANGED <<dvars, svars>>
    \/ VerifyAlgorithm /\ UNCHANGED <<dvars, svars>>
    \/ VerifyOpen /\ UNCHANGED <<dvars, svars>>
    \/ VerifyRead /\ UNCHANGED <<dvars, svars>>
    \/ VerifyReturn /\ UNCHANGED <<dvars, svars>>

\* The verification model: calls of VerifyFile and VerifyReader.
SpecVerify == InitServer /\ [][NextVerify]_vars

\* The X-File-Hash headers another peer may send with a body: none, the
\* body's digest under either known algorithm, the digest of other bytes, a
\* digest under an unknown algorithm, and a header without ":".
ForeignHeaders(body) ==
    { <<>>,
      HashString(HashReader("sha256", body)),
      HashString(HashReader("md5", body)),
      HashString(HashReader("sha256", body \o <<"z">>)),
      <<"crc", ":">> \o body,
      <<"sha256">> \o body }

\* The integrity model: the storage holds u/a, and the client's logger has
\* any of its levels.
InitIntegrity ==
    /\ files = 0 /\ Concurrency = 0 /\ DispatchIdle
    /\ clock = 0 /\ transfers = <<>> /\ records = <<>> /\ uploads = <<>>
    /\ poll = IdlePoll /\ get = IdleGet /\ rejected = 0
    /\ sfiles = (<<"u", "/", "a">> :> <<"x">>)
    /\ sdirs = {<<".">>, <<".", ".">>, StoragePath}
    /\ cfiles = <<>> /\ cdirs = {<<".">>, <<".", ".">>}
    /\ calls = <<>> /\ dl = IdleDl /\ vf = IdleVerify
    /\ LogLevel \in { LogLevels[k] : k \in 1..Len(LogLevels) }

NextIntegrity ==
    \/ \E peer \in {"server", "foreign"} :
          DownloadFileStart(<<"a">>, <<"o">>, peer) /\ UNCHANGED dvars
    \/ HandleGetSanitize /\ UNCHANGED <<dvars, cvars>>
    \/ HandleDownloadStat /\ UNCHANGED <<dvars, cvars>>
    \/ HandleFileOpen /\ UNCHANGED <<dvars, cvars>>
    \/ HandleFileHash /\ UNCHANGED <<dvars, cvars>>
    \/ HandleFileCopy /\ UNCHANGED <<dvars, cvars>>
    \/ DownloadTransportFails /\ UNCHANGED <<dvars, svars>>
    \/ DownloadResponse /\ UNCHANGED <<dvars, svars>>
    \/ \E body \in Contents : \E header \in ForeignHeaders(body) :
          ForeignFileResponse(body, header) /\ UNCHANGED <<dvars, svars>>
    \/ DownloadFileCreate /\ UNCHANGED <<dvars, svars>>
    \/ DownloadFileCopy /\ UNCHANGED <<dvars, svars>>
    \/ DownloadFileVerify /\ UNCHANGED <<dvars, svars>>

SpecIntegrity == InitIntegrity /\ [][NextIntegrity]_vars

(***************************************************************************)
(* Claims.                                                                 *)
(***************************************************************************)

\* The per-file transfer operations in flight: UploadFile called, not returned.
InFlight == {i \in 1..MaxFiles : tpc[i] = "uploading"}

\* UploadFolder has returned from the dispatch (not from an early refusal).
Dispatched == dpc = "returned" /\ dret \in {"uploadErr", "nil"}

\* C1: in every reachable state of UploadFolder the number of UploadFile calls
\* that have started and not yet returned is at most the concurrency limit.
C1_InFlightAtMostK == Cardinality(InFlight) <= Concurrency

\* C1 witness: the limit is reached (two transfers in flight under a limit of
\* two) while the launching loop waits for a slot for a further file.
C1_Witness ==
    /\ Concurrency = 2 /\ Cardinality(InFlight) = 2
    /\ dpc = "acquire" /\ idx = 3

\* C2: when UploadFolder returns after dispatching, every file's task has run
\* to its end (UploadFile was called for it or its task failed before), the
\* processed-file count is N minus the number of failing files, and if any
\* file failed exactly one error was recorded, that of a failing file.
C2_AllAttemptedOneError ==
    Dispatched =>
        /\ \A i \in Files : tpc[i] = "exited" /\ (i \in called \/ i \in failed)
        /\ progress.ProcessedFiles = files - Cardinality(failed)
        /\ failed # {} => /\ errWrites = 1
                          /\ uploadErr \in failed
                          /\ dret = "uploadErr"

\* C2 witness: three files, the first fails, the two launched after it are
\* still uploaded, one of them fails as well.
C2_Witness ==
    /\ Dispatched /\ files = 3
    /\ 1 \in failed /\ Cardinality(failed) = 2
    /\ called = {1, 2, 3}
    /\ progress.ProcessedFiles = 1

\* The state of a TransferStatus record is terminal.
Terminal(st) == st.Status \in {"completed", "failed"}

\* C3: a TransferStatus record starts running, and once its state is completed
\* or failed no later step of any task changes the state again.
C3_TerminalIsFinal ==
    [][\A a \in 1..Len(records) :
          Terminal(records[a]) => records'[a].Status = records[a].Status]_vars

\* What a status response shows is a whole number of updates of the record:
\* the progress is the one computed from the processed-file count shown, and
\* a failed state comes with its error message.
WholeUpdates(st) ==
    /\ st.ProcessedFiles > 0 => st.Progress.num = st.ProcessedFiles
    /\ st.Status = "failed" => st.Error # ""

\* C4: a status poll concurrent with the processing task only observes the
\* record before or after a whole update, never a partially applied one.
C4_PollSeesWholeUpdates ==
    poll.pc = "encode" => WholeUpdates(records[poll.ptr])


\* C8: the path check refuses "../../etc/passwd", "a/../../b" and
\* "a/b/../../.." (answer 400, no file touched) and accepts "a/./b", which it
\* normalises to "a/b".
C8_SanitizerExamples ==
    get.pc \notin {"idle", "sanitize"} =>
        /\ get.path \in EscapingPaths =>
              get.pc = "done" /\ get.code = 400 /\ get.fsops = 0
        /\ get.path = DottedPath =>
              get.code # 400 /\ get.clean = <<"a", "/", "b">>

C8_Witness ==
    /\ get.pc = "done" /\ get.code = 400
    /\ get.path = <<"a", "/", "b", "/", ".", ".", "/", ".", ".", "/", ".", ".">>
    /\ get.clean = <<".", ".">>

\* C5: a non-empty file uploaded with UploadFile to the remote path p and,
\* once that transfer is completed, downloaded from p with DownloadFile comes
\* back with exactly its bytes, whether or not p has directory components
\* (no I/O failure on the way).
C5_UploadDownloadRoundTrip ==
    (/\ dl.pc = "returned" /\ dl.kind = "file" /\ dl.settled
     /\ Len(calls) = 1 /\ calls[1].by = "file" /\ dl.remote = calls[1].remote
     /\ cfiles[calls[1].fp] # <<>>
     /\ dl.ret # "io" /\ dl.code # 500)
    => /\ dl.ret = "nil"
       /\ dl.local \in DOMAIN cfiles
       /\ cfiles[dl.local] = cfiles[calls[1].fp]

\* C6: UploadFolder to the remote path R keeps the folder's structure: a file
\* whose path relative to the local folder is r, once its upload has been
\* processed without failure, is stored at R/r below the storage root.
C6_FolderStructurePreserved ==
    \A c \in Calls :
        (/\ calls[c].by = "folder" /\ calls[c].pc = "ok"
         /\ uploads[calls[c].u].ppc = "done" /\ uploads[calls[c].u].err = "")
        => Join(StoragePath, calls[c].remote) \in DOMAIN sfiles

\* The relative files below root, each with its bytes.
TreeOf(fs, root) ==
    [r \in { SubSeq(q, Len(root) + 2, Len(q)) : q \in { q \in DOMAIN fs : Inside(root, q) } }
        |-> fs[root \o <<"/">> \o r]]

\* C7: a stored tree sent by handleDirectoryDownload and received by
\* DownloadFolder with no I/O failure leaves under the destination root
\* exactly the tree's relative file paths with the same bytes, and the count
\* of processed files is the number of regular files of the tree.
C7_ArchiveRoundTrip ==
    (/\ dl.pc = "returned" /\ dl.kind = "folder" /\ dl.src = "server"
     /\ dl.ret = "nil" /\ get.pc = "done" /\ get.walk = <<>>)
    => /\ TreeOf(cfiles, dl.local) = TreeOf(sfiles, get.full)
       /\ \A q \in DOMAIN cfiles : Inside(dl.local, q)
       /\ dl.progress.ProcessedFiles = Cardinality(DOMAIN TreeOf(sfiles, get.full))

C7_Witness ==
    /\ dl.pc = "returned" /\ dl.kind = "folder" /\ dl.src = "server"
    /\ dl.ret = "nil" /\ get.pc = "done" /\ get.walk = <<>>
    /\ dl.remote = <<"t">>
    /\ dl.progress.ProcessedFiles = 4
    /\ <<"l", "/", "d", "/", "e", "/", "b">> \in DOMAIN cfiles

\* The storage path p is one the path check lets through.
PassesSanitizer(p) ==
    \/ p = StoragePath
    \/ /\ Inside(StoragePath, p)
       /\ Sanitize(SubSeq(p, Len(StoragePath) + 2, Len(p))).ok

\* C9: the path check guards uploads as well as downloads: no uploaded file
\* is created, and no requested file is opened, at a path that the check
\* does not let through.
C9_UploadPathSanitized ==
    /\ \A q \in DOMAIN sfiles : PassesSanitizer(q)
    /\ get.pc \in {"open", "hash", "copy"} => PassesSanitizer(get.full)

\* C10: whatever the archive stream, entry names with ".." included,
\* DownloadFolder creates files only inside its destination root.
C10_EntriesInsideRoot ==
    dl.kind = "folder" => \A q \in DOMAIN cfiles : Inside(dl.local, q)

\* C11: the shared error slot of UploadFolder is written only while it is
\* empty, by a task on its error path; once written it keeps its value through
\* later failures and successes, and UploadFolder returns it.
C11_FirstErrorKept ==
    [][/\ uploadErr # 0 => uploadErr' = uploadErr
       /\ uploadErr' # uploadErr =>
             /\ uploadErr = 0
             /\ tpc[uploadErr'] = "errSet" /\ mu = uploadErr'
             /\ uploadErr' \in failed
       /\ (dpc' = "returned" /\ dret' \in {"uploadErr", "nil"}) =>
             (dret' = "uploadErr" <=> uploadErr' # 0)]_vars

\* C11 witness: the task of the second file recorded its error first; the
\* first file failed later and a third file succeeded after that, and the
\* slot still holds the second file's error when UploadFolder returns it.
C11_Witness ==
    /\ Dispatched /\ dret = "uploadErr"
    /\ uploadErr = 2 /\ failed = {1, 2}
    /\ progress.ProcessedFiles = 1 /\ progress.CurrentFile = 3

\* C12: UploadFolder returns only when every launched task has finished: at
\* the return no UploadFile call is in flight, afterwards no callback is
\* invoked and the progress record no longer changes, and the result is the
\* recorded error when there is one and nil otherwise.
C12_ReturnsAfterAllTasks ==
    [][/\ (dpc' = "returned" /\ dret' \in {"uploadErr", "nil"}) =>
             /\ \A i \in 1..MaxFiles : tpc'[i] \in {"none", "exited"}
             /\ \A i \in 1..files : tpc'[i] = "exited"
             /\ wg' = 0 /\ sem' = 0 /\ mu' = 0
             /\ dret' = (IF uploadErr' # 0 THEN "uploadErr" ELSE "nil")
       /\ dpc = "returned" =>
             /\ cbCount' = cbCount
             /\ progress' = progress
             /\ called' = called]_vars

\* C12 witness: three files over two slots, all uploaded, three callbacks made,
\* and UploadFolder has returned nil.
C12_Witness ==
    /\ Dispatched /\ dret = "nil"
    /\ files = 3 /\ Concurrency = 2
    /\ cbCount = 3 /\ called = {1, 2, 3}

\* C13: when the source directory has no regular file UploadFolder returns an
\* error, and it takes no semaphore slot, starts no task, calls UploadFile for
\* no file and makes no callback.
C13_EmptyDirectoryRefused ==
    files = 0 =>
        /\ sem = 0 /\ wg = 0 /\ mu = 0
        /\ \A i \in 1..MaxFiles : tpc[i] = "none"
        /\ called = {} /\ cbCount = 0
        /\ dpc \in {"collect", "returned"}
        /\ dpc = "returned" => dret \in {"noFiles", "collectError"}

C13_Witness ==
    /\ files = 0 /\ dpc = "returned" /\ dret = "noFiles"
    /\ Concurrency = 2

\* The task i is between mu.Lock() and mu.Unlock().
InCriticalSection(i) == tpc[i] \in {"errSet", "okCount", "okSize", "okCallback", "unlock"}

\* C14: the callback of UploadFolder is invoked with the progress mutex held,
\* in the critical section of the field updates: a task about to invoke it
\* holds the mutex, no step of another task changes the progress record
\* meanwhile, and the k-th invocation sees a processed-file count of k.
C14_CallbackInCriticalSection ==
    [][/\ \A i \in 1..MaxFiles :
             /\ InCriticalSection(i) => mu = i
             /\ (tpc[i] = "okCallback" /\ tpc'[i] = "okCallback") => progress' = progress
       /\ cbCount' # cbCount =>
             /\ cbCount' = cbCount + 1
             /\ lastCb' = progress
             /\ lastCb'.ProcessedFiles = cbCount']_vars

\* C14 witness: the second callback has just been made, with a count of two,
\* while another task that has uploaded its file waits for the mutex.
C14_Witness ==
    /\ cbCount = 2 /\ lastCb.ProcessedFiles = 2
    /\ \E i \in Files : \E j \in Files :
          /\ tpc[i] = "unlock" /\ mu = i
          /\ tpc[j] = "okLock"

\* C15 as stated: a status request for an identifier without a registry entry,
\* the empty suffix included, is answered not-found (404); one for an
\* identifier with an entry is answered with that entry's record; neither
\* changes the registry.
C15_AbsentIsNotFound ==
    [][/\ (poll.pc = "idle" /\ poll'.pc # "idle") =>
             /\ transfers' = transfers /\ records' = records
             /\ IF poll'.id \in DOMAIN transfers
                THEN poll'.pc = "encode" /\ poll'.ptr = transfers[poll'.id]
                ELSE poll'.pc = "done" /\ poll'.code = 404
       /\ (poll.pc = "encode" /\ poll'.pc = "done") =>
             /\ transfers' = transfers /\ records' = records
             /\ poll'.code = 200 /\ poll'.ptr = poll.ptr]_vars

\* C15 amended: the empty suffix is refused with 400 (bad request); any other
\* identifier without an entry is answered 404, an identifier with an entry
\* is answered 200 with the record the registry holds for it at the lookup;
\* neither changes the registry.
C15_EmptyIsBadRequest ==
    [][/\ (poll.pc = "idle" /\ poll'.pc # "idle") =>
             /\ transfers' = transfers /\ records' = records
             /\ IF poll'.id = NoID
                THEN poll'.pc = "done" /\ poll'.code = 400
                ELSE IF poll'.id \in DOMAIN transfers
                THEN poll'.pc = "encode" /\ poll'.ptr = transfers[poll'.id]
                ELSE poll'.pc = "done" /\ poll'.code = 404
       /\ (poll.pc = "encode" /\ poll'.pc = "done") =>
             /\ transfers' = transfers /\ records' = records
             /\ poll'.code = 200 /\ poll'.ptr = poll.ptr]_vars

\* C15 witness: with one transfer registered, a request with the empty suffix
\* has been answered 400.
C15_Witness ==
    /\ poll.pc = "done" /\ poll.id = NoID /\ poll.code = 400
    /\ DOMAIN transfers # {}

\* C16: the body of an upload is processed only after the response was sent:
\* while the handler has not written its {transfer_id, started} response the
\* processing task has written no file and changed no field of the record.
C16_ProcessedAfterResponse ==
    \A u \in Uploads :
        uploads[u].hpc # "responded" => uploads[u].ppc \in {"none", "start", "total"}

\* C20: the registry never removes an entry: whatever upload, status, download
\* or list step is taken, every identifier present before it is present
\* after it.
C20_NoEviction ==
    [][DOMAIN transfers \subseteq DOMAIN transfers']_vars

\* C20 witness: the transfer of an upload has ended, a status request for it
\* and a list request have been answered, and its entry is still there.
C20_Witness ==
    /\ Len(uploads) = 1 /\ uploads[1].ppc = "done"
    /\ uploads[1].id \in DOMAIN transfers
    /\ records[transfers[uploads[1].id]].EndTime = "set"
    /\ poll.pc = "done" /\ poll.code = 200 /\ poll.id = uploads[1].id
    /\ get.pc = "done" /\ get.kind = "list" /\ get.code = 200

\* C17: an integrity mismatch on a downloaded file is never silent: whatever
\* the level of the client's logger, when DownloadFile returns and the
\* X-File-Hash header does not match the bytes written (wrong digest, unknown
\* algorithm or malformed header), a log record of the failure was written.
C17_MismatchIsLogged ==
    (/\ dl.pc = "returned" /\ dl.kind = "file" /\ dl.ret = "nil"
     /\ dl.hash # <<>> /\ dl.local \in DOMAIN cfiles
     /\ VerifyFileHash(cfiles[dl.local], dl.hash) # "nil")
    => dl.logged >= 1

\* C18: VerifyFile and VerifyReader test the algorithm first: when the
\* expected hash's algorithm differs from the hasher's, the file is never
\* opened and no byte is read, and the call ends with the algorithm-mismatch
\* error.
C18_AlgorithmCheckedFirst ==
    (vf.pc # "idle" /\ vf.expected.Algorithm # vf.hashType) =>
        /\ ~vf.opened /\ vf.read = 0
        /\ vf.pc \in {"check", "done"}
        /\ vf.pc = "done" => (vf.err = "algorithm" /\ ~vf.ok)

C18_Witness ==
    /\ vf.pc = "done" /\ vf.kind = "file"
    /\ vf.hashType = "sha256" /\ vf.expected.Algorithm = "md5"
    /\ vf.bytes = <<"x", "y">> /\ vf.expected.Value = Digest("md5", <<"x", "y">>)
    /\ vf.err = "algorithm"

\* C19: verification tells the two mismatches apart: differing algorithms
\* give an error; the same known algorithm with differing digests gives false
\* with no error unless reading fails; and the result is true exactly when
\* algorithm and digest both match (and then there is no error).
C19_MismatchKinds ==
    vf.pc = "done" =>
        /\ vf.expected.Algorithm # vf.hashType => (vf.err = "algorithm" /\ ~vf.ok)
        /\ (/\ vf.expected.Algorithm = vf.hashType /\ vf.hashType \in HashTypes
            /\ vf.expected.Value # Digest(vf.hashType, vf.bytes)
            /\ vf.err \notin {"open", "read"}) => (~vf.ok /\ vf.err = "")
        /\ vf.ok => /\ vf.err = ""
                    /\ vf.expected.Algorithm = vf.hashType
                    /\ vf.expected.Value = Digest(vf.hashType, vf.bytes)
        /\ (/\ vf.expected.Algorithm = vf.hashType /\ vf.hashType \in HashTypes
            /\ vf.expected.Value = Digest(vf.hashType, vf.bytes)
            /\ vf.err \notin {"open", "read"}) => vf.ok

C19_Witness ==
    /\ vf.pc = "done" /\ vf.kind = "reader"
    /\ vf.hashType = "md5" /\ vf.expected.Algorithm = "md5"
    /\ vf.bytes = <<"x">> /\ vf.expected.Value = Digest("md5", <<"x", "y">>)
    /\ ~vf.ok /\ vf.err = "" /\ vf.read = 1

\* C21: each status record is written only by the task of the request that
\* created it: a running task holds the record its own request allocated, and
\* no two tasks hold the same record, also when two requests were accepted at
\* the same clock reading.
C21_OneWriterPerRecord ==
    \A u \in Uploads : uploads[u].status # 0 =>
        /\ uploads[u].status = u
        /\ \A v \in Uploads \ {u} : uploads[v].status # uploads[u].status

\* C22: in every state of every status record the progress is a fraction in
\* [0,1] and the processed-file count is at most the total-file count.
C22_ProgressInRange ==
    \A r \in 1..Len(records) :
        /\ records[r].Progress.den > 0
        /\ 0 <= records[r].Progress.num
        /\ records[r].Progress.num <= records[r].Progress.den
        /\ records[r].ProcessedFiles <= records[r].TotalFiles

\* DownloadFolder has returned an error met while decoding the archive.
DecodeFailed ==
    dl.kind = "folder" /\ dl.pc = "returned" /\ dl.ret = "io" /\ dl.code = 200

\* The file of the k-th fully written entry is in the destination with the
\* entry's bytes.
Intact(k) ==
    /\ dl.done[k].path \in DOMAIN cfiles
    /\ cfiles[dl.done[k].path] = dl.done[k].data

\* A later entry (a fully written one, or the one being decoded) has the
\* destination path of the k-th fully written entry.
Superseded(k) ==
    \/ \E j \in (k + 1)..Len(dl.done) : dl.done[j].path = dl.done[k].path
    \/ dl.nread > Len(dl.done) /\ Join(dl.local, dl.cur.Name) = dl.done[k].path

\* C23 as stated: when DownloadFolder fails while decoding an entry, every
\* file of the earlier, fully written entries is in the destination with its
\* full content.
C23_WrittenFilesRemain ==
    DecodeFailed => \A k \in 1..Len(dl.done) : Intact(k)

\* C23, amended: when DownloadFolder fails while decoding an entry, every file
\* of the earlier, fully written entries whose destination path no later
\* entry names is in the destination with its full content.
C23_UnreplacedFilesRemain ==
    DecodeFailed => \A k \in 1..Len(dl.done) : ~Superseded(k) => Intact(k)

C23_Witness ==
    /\ DecodeFailed /\ dl.nread = 2 /\ Len(dl.done) = 1
    /\ dl.done[1].data # <<>> /\ ~Superseded(1) /\ Intact(1)
    /\ Join(dl.local, dl.cur.Name) \in DOMAIN cfiles

\* C24: a failure of os.Chmod or os.Chtimes does not abort the decode: the
\* step that restores an entry's mode and time always counts the entry,
\* invokes the callback and goes on to the next header, and a call that
\* returns nil has counted and reported every entry it read.
C24_RestoreFailureNotFatal ==
    /\ [][(dl.pc = "progress" /\ dl' # dl) =>
            /\ dl'.pc = "next"
            /\ dl'.callbacks = dl.callbacks + 1
            /\ dl'.progress.ProcessedFiles = dl.progress.ProcessedFiles + 1
            /\ dl'.stream = dl.stream]_vars
    /\ []((dl.kind = "folder" /\ dl.pc = "returned" /\ dl.ret = "nil") =>
            /\ dl.stream = <<>>
            /\ dl.callbacks = dl.nread
            /\ dl.progress.ProcessedFiles = dl.nread)

C24_Witness ==
    /\ dl.kind = "folder" /\ dl.pc = "returned" /\ dl.ret = "nil"
    /\ dl.nread = 2 /\ dl.callbacks = 2 /\ dl.warns >= 3

\* C28: an error of the header read, of the payload copy or of creating the
\* entry's directory or file ends DownloadFolder at once: the failing entry is
\* the last one read, the callback ran only for the entries before it, and
\* after the return nothing more is read, written or reported.
C28_ErrorEndsDecode ==
    /\ [](DecodeFailed =>
            /\ dl.nread <= Len(dl.done) + 1
            /\ dl.callbacks = Len(dl.done)
            /\ dl.progress.ProcessedFiles = Len(dl.done))
    /\ [][dl.pc = "returned" => UNCHANGED <<dl, cfiles, cdirs>>]_vars

C28_Witness ==
    /\ DecodeFailed /\ dl.stream # <<>>
    /\ dl.nread = 2 /\ Len(dl.done) = 1 /\ dl.callbacks = 1

\* The path the handler checks: the path parameter, with "." for the empty
\* path of a list request.
CheckedPath == IF get.kind = "list" /\ get.path = <<>> THEN <<".">> ELSE get.path

\* The download or list request is past the path check (an empty download
\* path is refused before the check).
PastPathCheck ==
    /\ get.pc \notin {"idle", "sanitize"}
    /\ ~(get.kind = "download" /\ get.path = <<>>)

\* C25: a download or list request whose path fails the path check is
\* answered 400 before the server touches the filesystem for it.
C25_RejectedBeforeIO ==
    (PastPathCheck /\ ~Sanitize(CheckedPath).ok) =>
        /\ get.pc = "done" /\ get.code = 400
        /\ get.fsops = 0 /\ get.full = <<>>
        /\ get.body = <<>> /\ get.stream = <<>> /\ get.listing = {}

C25_Witness ==
    /\ get.pc = "done" /\ get.kind = "list" /\ get.code = 400 /\ get.fsops = 0
    /\ get.path = <<"a", "/", ".", ".", "/", ".", ".", "/", "b">>

\* The path has a component equal to "..".
HasParentSegment(p) ==
    \E i \in 1..(Len(p) - 1) :
        /\ p[i] = "." /\ p[i + 1] = "."
        /\ (i = 1 \/ p[i - 1] = "/")
        /\ (i + 1 = Len(p) \/ p[i + 2] = "/")

\* C27: the path check refuses a path exactly when its normal form has a
\* component equal to "..": a request past the check was answered 400 by it
\* if and only if the cleaned path has such a component.
C27_RejectsOnlyParentSegments ==
    PastPathCheck =>
        ((get.pc = "done" /\ get.code = 400 /\ get.fsops = 0)
            <=> HasParentSegment(Clean(CheckedPath)))

\* The task of file i holds the slot taken for it: it was launched and its
\* deferred release has not run.
HoldsSlot(i) ==
    tpc[i] \in {"start", "uploading", "errLock", "okLock", "errSet", "okCount",
                "okSize", "okCallback", "unlock", "release"}

\* C26: every task releases its slot exactly once, whichever way it exits: the
\* slots taken are those of the launched tasks that have not released yet
\* (and the one the loop has just taken for the task it is about to launch),
\* and none is taken when UploadFolder returns.
C26_SlotsMatchRunningTasks ==
    /\ sem = Cardinality({i \in 1..MaxFiles : HoldsSlot(i)})
               + (IF dpc = "go" THEN 1 ELSE 0)
    /\ dpc = "returned" => sem = 0

C26_Witness ==
    /\ Dispatched /\ files = 3 /\ sem = 0
    /\ failed \ called # {} /\ failed \cap called # {}
    /\ (1..3) \ failed # {}

\* C30: with at least one file and a concurrency limit of at least one,
\* UploadFolder eventually returns, under every interleaving of the loop and
\* the tasks.
C30_EventuallyReturns ==
    (files >= 1 /\ Concurrency >= 1) => <>(dpc = "returned")

C30_Witness ==
    /\ Dispatched /\ files = 3 /\ Concurrency = 1
    /\ Cardinality(failed) = 2 /\ cbCount = 1
    /\ \A i \in 1..3 : tpc[i] = "exited"

\* The storage path of the k-th file part of upload u.
DestPath(u, k) == Join(StoragePath, FileName(uploads[u].parts[k].name))

\* C29: the files of one upload request are processed one at a time in
\* request order (the files created so far are a prefix of the request's
\* list), and once the task has ended on a failing file, the record is failed
\* with that file's error, ProcessedFiles is the number of files before it, no
\* later file was created, and the files before it are in storage.
C29_FirstFailureEndsTransfer ==
    \A u \in Uploads :
        LET up == uploads[u] IN
        /\ up.ppc # "size" => up.wrote \in {1..(up.i - 1), 1..up.i}
        /\ (up.ppc = "done" /\ up.err # "") =>
              /\ records[up.status].Status = "failed"
              /\ records[up.status].Error = up.err
              /\ records[up.status].ProcessedFiles = up.i - 1
              /\ up.wrote \subseteq 1..up.i
              /\ \A k \in 1..(up.i - 1) : DestPath(u, k) \in DOMAIN sfiles

\* C31: with a concurrency limit of 0 and at least one file, UploadFolder
\* never gets past the first send on the semaphore: no slot is taken, no task
\* is launched, UploadFile is never called, no callback runs and the call
\* does not return from its loop.
C31_ZeroLimitBlocks ==
    (Concurrency = 0 /\ files >= 1) =>
        /\ sem = 0 /\ idx = 1
        /\ \A i \in 1..MaxFiles : tpc[i] = "none"
        /\ called = {} /\ failed = {} /\ cbCount = 0
        /\ ~Dispatched
        /\ dpc \in {"collect", "add", "acquire"} \/ dret = "collectError"

C31_Witness ==
    /\ Concurrency = 0 /\ files = 3
    /\ dpc = "acquire" /\ wg = 1 /\ progress.TotalFiles = 3
    /\ sem = 0 /\ tpc[1] = "none"

\* UploadFolder returns nil: every task's UploadFile call returned nil.
UploadFolderSucceeded ==
    /\ calls # <<>>
    /\ \A c \in Calls : calls[c].by = "folder" /\ calls[c].pc = "ok"

\* C32: when UploadFolder returns nil, the server task of each of its files
\* has ended, its transfer is completed, and the file is in storage with the
\* bytes of the local file.
C32_SuccessMeansStored ==
    UploadFolderSucceeded =>
        \A c \in Calls :
            LET u == calls[c].u IN
            /\ uploads[u].ppc = "done"
            /\ records[uploads[u].status].Status = "completed"
            /\ DestPath(u, 1) \in DOMAIN sfiles
            /\ sfiles[DestPath(u, 1)] = cfiles[calls[c].fp]

\* C33: the record a status poll is about to encode has its end time set if
\* its status is completed or failed, and has none while it is running.
C33_EndTimeWithTerminal ==
    poll.pc = "encode" =>
        LET st == records[poll.ptr] IN
        /\ Terminal(st) => st.EndTime = "set"
        /\ st.Status = "running" => st.EndTime = "nil"

\* C34: a completed record has all its files and bytes processed and a
\* progress of 1, also for a request without file parts.
C34_CompletedIsWhole ==
    \A r \in 1..Len(records) :
        records[r].Status = "completed" =>
            /\ records[r].ProcessedFiles = records[r].TotalFiles
            /\ records[r].ProcessedSize = records[r].TotalSize
            /\ records[r].Progress.den > 0
            /\ records[r].Progress.num = records[r].Progress.den

\* C35: the record every progress callback of UploadFolder sees has a
\* processed-file count of at most the total and a processed byte count of at
\* most the total byte count.
C35_CallbackWithinTotals ==
    cbCount >= 1 =>
        /\ lastCb.ProcessedFiles <= lastCb.TotalFiles
        /\ lastCb.ProcessedSize <= lastCb.TotalSize

\* C36: a file download response that carries an X-File-Hash header carries
\* the digest of the bytes of its body.
C36_HeaderMatchesBody ==
    (/\ get.pc = "done" /\ get.kind = "download" /\ get.code = 200
     /\ get.id = NoID /\ get.hash # <<>>)
    => get.hash = HashString(HashFile(get.body))

\* C37: every transfer id sent to a client, in an upload response or in the
\* X-Transfer-ID header of a directory download, has a registry entry.
C37_SentIdsAreRegistered ==
    /\ \A u \in Uploads :
          uploads[u].hpc = "responded" => uploads[u].id \in DOMAIN transfers
    /\ (get.pc \in {"walk", "done"} /\ get.id # NoID) => get.id \in DOMAIN transfers

\* C38: within one UploadFolder call, the files of two tasks (which have
\* different relative paths) are stored at different storage paths.
C38_DistinctStoragePaths ==
    \A c \in Calls : \A d \in Calls :
        (/\ c # d /\ calls[c].by = "folder" /\ calls[d].by = "folder"
         /\ calls[c].u # 0 /\ calls[d].u # 0)
        => DestPath(calls[c].u, 1) # DestPath(calls[d].u, 1)

\* C39: DownloadFile returns nil only if the local file verifies against the
\* X-File-Hash header, when the response carries one.
C39_SuccessMeansVerified ==
    (/\ dl.pc = "returned" /\ dl.kind = "file" /\ dl.ret = "nil"
     /\ dl.hash # <<>>)
    => /\ dl.local \in DOMAIN cfiles
       /\ VerifyFileHash(cfiles[dl.local], dl.hash) = "nil"
       /\ dl.warns = 0

\* C40: a refused upload request changes neither the registry nor the
\* storage: the step that refuses it reads no clock, allocates no record,
\* stores no entry, starts no task and writes no file.
C40_RejectChangesNothing ==
    [][rejected' # rejected =>
          UNCHANGED <<clock, transfers, records, uploads, sfiles, sdirs>>]_vars

C40_Witness ==
    /\ rejected = 1 /\ Len(uploads) = 1 /\ Len(records) = 1
    /\ DOMAIN transfers = {uploads[1].id}
    /\ uploads[1].ppc = "done" /\ Len(uploads[1].parts) = 1
    /\ DOMAIN sfiles = {DestPath(1, 1)}

====
